---- MODULE Spec2Model ----
(***************************************************************************)
(* A model of PySlater (src/pyslater_for_flame.py): the engine that merges *)
(* the rows of a CSV table into a TTG template, one document per row, and  *)
(* optionally writes an HTML manifest of the produced names.               *)
(*                                                                         *)
(* Text is modelled at character level: a string is a sequence of one-     *)
(* character strings, <<"d", "/", "x">> standing for 'd/x'.  A table row   *)
(* is a sequence of such strings, a file a sequence of lines.              *)
(***************************************************************************)
EXTENDS Integers, Sequences, FiniteSets, TLC

(***************************************************************************)
(* Character classes of Python's re module, on the ASCII alphabet used.    *)
(***************************************************************************)
Digits == {"0", "1", "2", "3", "4", "5", "6", "7", "8", "9"}

NonZeroDigits == Digits \ {"0"}

Letters == {"a", "b", "c", "d", "e", "f", "g", "h", "i", "j", "k", "l", "m",
            "n", "o", "p", "q", "r", "s", "t", "u", "v", "w", "x", "y", "z",
            "A", "B", "C", "D", "E", "F", "G", "H", "I", "J", "K", "L", "M",
            "N", "O", "P", "Q", "R", "S", "T", "U", "V", "W", "X", "Y", "Z"}

\* \w of the regular expressions: letters, digits and the underscore.
WordChars == Letters \cup Digits \cup {"_"}

IsWord(c) == c \in WordChars

\* s[a..b] as a sequence, empty when b < a.
Slice(s, a, b) == IF b < a THEN <<>> ELSE SubSeq(s, a, b)

\* The length of the longest prefix of s, from position i on, made of
\* characters of the set cs.
RECURSIVE RunLen(_, _, _)
RunLen(s, i, cs) ==
    IF i > Len(s) \/ s[i] \notin cs THEN 0 ELSE 1 + RunLen(s, i + 1, cs)

(***************************************************************************)
(* tidy_text, one regular-expression substitution per operator.            *)
(***************************************************************************)
\* re.sub(r'^[\W_]+|[\W_]+$', '', text)
RECURSIVE ChopLeft(_)
ChopLeft(s) ==
    IF s # <<>> /\ (~IsWord(s[1]) \/ s[1] = "_") THEN ChopLeft(Tail(s)) ELSE s

RECURSIVE ChopRight(_)
ChopRight(s) ==
    IF s # <<>> /\ (~IsWord(s[Len(s)]) \/ s[Len(s)] = "_")
    THEN ChopRight(Slice(s, 1, Len(s) - 1))
    ELSE s

Chop(text) == ChopRight(ChopLeft(text))

\* The length of the match of ([1-9]+):([1-9]+[0-9]*) that starts at
\* position i of s, 0 when there is none.  The first group is the whole run
\* of non-zero digits at i (a shorter one is not followed by the colon).
RatioMatchLen(s, i) ==
    LET a == RunLen(s, i, NonZeroDigits)
        c == i + a
        b == IF c + 1 <= Len(s) /\ s[c + 1] \in NonZeroDigits
             THEN RunLen(s, c + 1, Digits) ELSE 0
    IN  IF a > 0 /\ c <= Len(s) /\ s[c] = ":" /\ b > 0 THEN a + 1 + b ELSE 0

\* re.sub(r'([1-9]+):([1-9]+[0-9]*)', r'\1x\2', chopped): leftmost matches,
\* not overlapping.
RECURSIVE SwapFrom(_, _)
SwapFrom(s, i) ==
    IF i > Len(s) THEN <<>>
    ELSE LET n == RatioMatchLen(s, i)
             a == RunLen(s, i, NonZeroDigits)
         IN  IF n = 0 THEN <<s[i]>> \o SwapFrom(s, i + 1)
             ELSE Slice(s, i, i + a - 1) \o <<"x">>
                  \o Slice(s, i + a + 1, i + n - 1) \o SwapFrom(s, i + n)

Swap(chopped) == SwapFrom(chopped, 1)

\* re.sub(r'\W+', '_', swapped)
RECURSIVE SanitizeFrom(_, _)
SanitizeFrom(s, i) ==
    IF i > Len(s) THEN <<>>
    ELSE IF IsWord(s[i]) THEN <<s[i]>> \o SanitizeFrom(s, i + 1)
    ELSE <<"_">> \o SanitizeFrom(s, i + RunLen(s, i, {s[j] : j \in 1..Len(s)} \ WordChars))

Sanitize(swapped) == SanitizeFrom(swapped, 1)

\* re.sub(r'(_)\1+', '_', sanitized)
RECURSIVE DedupeFrom(_, _)
DedupeFrom(s, i) ==
    IF i > Len(s) THEN <<>>
    ELSE IF s[i] = "_" THEN <<"_">> \o DedupeFrom(s, i + RunLen(s, i, {"_"}))
    ELSE <<s[i]>> \o DedupeFrom(s, i + 1)

Dedupe(sanitized) == DedupeFrom(sanitized, 1)

tidy_text(text) == Dedupe(Sanitize(Swap(Chop(text))))

(***************************************************************************)
(* fnmatch.fnmatch(name, pat) for patterns of literals, '*' and '?'.       *)
(***************************************************************************)
RECURSIVE GlobFrom(_, _, _, _)
GlobFrom(name, i, pat, j) ==
    IF j > Len(pat) THEN i > Len(name)
    ELSE IF pat[j] = "*"
         THEN \E k \in i..(Len(name) + 1) : GlobFrom(name, k, pat, j + 1)
    ELSE /\ i <= Len(name)
         /\ (pat[j] = "?" \/ pat[j] = name[i])
         /\ GlobFrom(name, i + 1, pat, j + 1)

fnmatch(name, pat) == GlobFrom(name, 1, pat, 1)

(***************************************************************************)
(* str.format on the converted output pattern, with the positional and    *)
(* the keyword arguments of the call.                                      *)
(* A positional argument is [isNone |-> BOOLEAN, text |-> string]; the     *)
(* keyword arguments are a function from header strings to strings.  Field *)
(* names are taken without '.', '[', '!' and ':' (no attribute lookup,     *)
(* conversion or format specification).                                    *)
(***************************************************************************)
DigitValue(c) == CHOOSE n \in 0..9 : <<"0", "1", "2", "3", "4", "5", "6", "7", "8", "9">>[n + 1] = c

\* int(s) of a non-empty string of decimal digits.
RECURSIVE DecValue(_)
DecValue(s) ==
    IF s = <<>> THEN 0
    ELSE 10 * DecValue(Slice(s, 1, Len(s) - 1)) + DigitValue(s[Len(s)])

\* The position of the first character c of s at or after i, 0 if none.
RECURSIVE IndexFrom(_, _, _)
IndexFrom(s, c, i) ==
    IF i > Len(s) THEN 0 ELSE IF s[i] = c THEN i ELSE IndexFrom(s, c, i + 1)

Formatted(text) == [err |-> "none", text |-> text]

Raised(exception) == [err |-> exception, text |-> <<>>]

\* str(None) for a positional argument that is None.
ArgText(arg) == IF arg.isNone THEN <<"N", "o", "n", "e">> ELSE arg.text

\* text, then the rest of the formatting, unless the rest raises.
Emit(text, rest) == IF rest.err = "none" THEN Formatted(text \o rest.text) ELSE rest

\* Formatting from position i of the pattern p on, fields left to right.
\* mode is "unset", "auto" (a field {} was seen) or "manual" (a field {n}
\* was seen); next is the index the next {} takes.
RECURSIVE FormatFrom(_, _, _, _, _, _)
FormatFrom(p, i, mode, next, column, keyword) ==
    IF i > Len(p) THEN Formatted(<<>>)
    ELSE IF p[i] = "}"
    THEN IF i < Len(p) /\ p[i + 1] = "}"
         THEN Emit(<<"}">>, FormatFrom(p, i + 2, mode, next, column, keyword))
         ELSE Raised("ValueError")
    ELSE IF p[i] # "{"
    THEN Emit(<<p[i]>>, FormatFrom(p, i + 1, mode, next, column, keyword))
    ELSE IF i < Len(p) /\ p[i + 1] = "{"
    THEN Emit(<<"{">>, FormatFrom(p, i + 2, mode, next, column, keyword))
    ELSE LET j == IndexFrom(p, "}", i + 1)
             name == Slice(p, i + 1, j - 1)
         IN  IF j = 0 THEN Raised("ValueError")
             ELSE IF name = <<>>
             THEN IF mode = "manual" THEN Raised("ValueError")
                  ELSE IF next >= Len(column) THEN Raised("IndexError")
                  ELSE Emit(ArgText(column[next + 1]),
                            FormatFrom(p, j + 1, "auto", next + 1, column, keyword))
             ELSE IF \A k \in 1..Len(name) : name[k] \in Digits
             THEN IF mode = "auto" THEN Raised("ValueError")
                  ELSE IF DecValue(name) >= Len(column) THEN Raised("IndexError")
                  ELSE Emit(ArgText(column[DecValue(name) + 1]),
                            FormatFrom(p, j + 1, "manual", next, column, keyword))
             ELSE IF name \notin DOMAIN keyword THEN Raised("KeyError")
             ELSE Emit(keyword[name],
                       FormatFrom(p, j + 1, mode, next, column, keyword))

\* The call pattern.format of run(); a pattern that is None has no format
\* attribute.
Format(pattern, column, keyword) ==
    IF pattern.isNone THEN Raised("AttributeError")
    ELSE FormatFrom(pattern.text, 1, "unset", 0, column, keyword)

(***************************************************************************)
(* os.path helpers, on POSIX paths.                                        *)
(***************************************************************************)
\* The position of the last character c of s, 0 if none.
RECURSIVE LastIndex(_, _)
LastIndex(s, c) ==
    IF s = <<>> THEN 0 ELSE IF s[Len(s)] = c THEN Len(s)
    ELSE LastIndex(Slice(s, 1, Len(s) - 1), c)

\* os.path.dirname(path): up to the last slash, trailing slashes dropped
\* unless the head is slashes only.
RECURSIVE StripSlashes(_)
StripSlashes(head) ==
    IF head # <<>> /\ head[Len(head)] = "/" THEN StripSlashes(Slice(head, 1, Len(head) - 1))
    ELSE head

dirname(path) ==
    LET head == Slice(path, 1, LastIndex(path, "/"))
    IN  IF StripSlashes(head) = <<>> THEN head ELSE StripSlashes(head)

\* os.path.basename(path): what follows the last slash.
basename(path) == Slice(path, LastIndex(path, "/") + 1, Len(path))

\* os.path.splitext(name)[0]: up to the last dot, the leading dots of the
\* name not counting as an extension mark.
splitext_root(name) ==
    LET dot == LastIndex(name, ".")
    IN  IF dot > RunLen(name, 1, {"."}) THEN Slice(name, 1, dot - 1) ELSE name

filename_no_ext(filepath) == splitext_root(basename(filepath))

\* os.path.join(a, b) for a relative b.
join(a, b) ==
    IF a = <<>> THEN b ELSE IF a[Len(a)] = "/" THEN a \o b ELSE a \o <<"/">> \o b

\* os.path.commonprefix(paths): the longest common prefix, character-wise.
RECURSIVE CommonLen(_, _)
CommonLen(paths, n) ==
    IF /\ \A k \in 1..Len(paths) : Len(paths[k]) > n
       /\ \A k \in 1..Len(paths) : paths[k][n + 1] = paths[1][n + 1]
    THEN CommonLen(paths, n + 1) ELSE n

commonprefix(paths) ==
    IF paths = <<>> THEN <<>> ELSE Slice(paths[1], 1, CommonLen(paths, 0))

\* The directory of the first path.
common_path_of_first(paths) == IF paths = <<>> THEN <<>> ELSE dirname(paths[1])

common_path(paths) == dirname(commonprefix(paths))

\* The directory d and the directories above it.
RECURSIVE Ancestors(_)
Ancestors(d) ==
    IF d = <<>> \/ dirname(d) = d THEN {d} \ {<<>>}
    ELSE {d} \cup Ancestors(dirname(d))

(***************************************************************************)
(* The Token Codec: TTG text is the decimal code points of the characters, *)
(* separated by spaces.                                                    *)
(***************************************************************************)
\* The printable ASCII characters in the order of their codes: 32..95 and
\* 97..126 (a TLA+ string cannot hold the grave accent, code 96).
AsciiLow ==
    <<" ", "!", "\"", "#", "$", "%", "&", "'", "(", ")", "*", "+",
      ",", "-", ".", "/", "0", "1", "2", "3", "4", "5", "6", "7",
      "8", "9", ":", ";", "<", "=", ">", "?", "@", "A", "B", "C",
      "D", "E", "F", "G", "H", "I", "J", "K", "L", "M", "N", "O",
      "P", "Q", "R", "S", "T", "U", "V", "W", "X", "Y", "Z", "[",
      "\\", "]", "^", "_">>

AsciiHigh ==
    <<"a", "b", "c", "d", "e", "f", "g", "h", "i", "j", "k", "l",
      "m", "n", "o", "p", "q", "r", "s", "t", "u", "v", "w", "x",
      "y", "z", "{", "|", "}", "~">>

\* ord(c) and chr(n) on these characters.
ord(c) ==
    IF \E k \in 1..Len(AsciiLow) : AsciiLow[k] = c
    THEN 31 + CHOOSE k \in 1..Len(AsciiLow) : AsciiLow[k] = c
    ELSE 96 + CHOOSE k \in 1..Len(AsciiHigh) : AsciiHigh[k] = c

chr(n) == IF n < 96 THEN AsciiLow[n - 31] ELSE AsciiHigh[n - 96]

\* str(n) for n >= 0.
RECURSIVE str(_)
str(n) ==
    IF n < 10 THEN <<chr(48 + n)>> ELSE str(n \div 10) \o <<chr(48 + (n % 10))>>

\* sep.join(parts)
RECURSIVE JoinWith(_, _)
JoinWith(sep, parts) ==
    IF parts = <<>> THEN <<>>
    ELSE IF Len(parts) = 1 THEN parts[1]
    ELSE parts[1] \o sep \o JoinWith(sep, Tail(parts))

\* s.split(): the maximal runs of characters other than white space.
RECURSIVE SplitFrom(_, _)
SplitFrom(s, i) ==
    IF i > Len(s) THEN <<>>
    ELSE IF s[i] \in {" ", "\t"} THEN SplitFrom(s, i + 1)
    ELSE LET n == RunLen(s, i, {s[j] : j \in 1..Len(s)} \ {" ", "\t"})
         IN  <<Slice(s, i, i + n - 1)>> \o SplitFrom(s, i + n)

split(s) == SplitFrom(s, 1)

startswith(s, prefix) ==
    Len(s) >= Len(prefix) /\ Slice(s, 1, Len(prefix)) = prefix

endswith(s, suffix) ==
    Len(s) >= Len(suffix) /\ Slice(s, Len(s) - Len(suffix) + 1, Len(s)) = suffix

\* The decoder that passes over the first token only: split()[1:-1].
convert_from_ttg_text_one_token(decimal_string) ==
    LET parts == split(decimal_string)
    IN  [k \in 1..(IF Len(parts) > 2 THEN Len(parts) - 2 ELSE 0) |->
            chr(DecValue(parts[k + 1]))]

\* ''.join(chr(int(c)) for c in decimal_string.split()[2:-1])
convert_from_ttg_text(decimal_string) ==
    LET parts == split(decimal_string)
    IN  [k \in 1..(IF Len(parts) > 3 THEN Len(parts) - 3 ELSE 0) |->
            chr(DecValue(parts[k + 2]))]

\* ' '.join(str(ord(c)) for c in string)
convert_to_ttg_text(string) ==
    JoinWith(<<" ">>, [k \in 1..Len(string) |-> str(ord(string[k]))])

(***************************************************************************)
(* The Keyword Scanner.  A keyword map is a function from line numbers     *)
(* (1-based) to text.                                                      *)
(***************************************************************************)
\* The scan with the lines numbered from 0.
find_ttg_keywords_from_zero(ttg_file_list) ==
    LET lines == {line \in 0..(Len(ttg_file_list) - 1) :
                     /\ startswith(ttg_file_list[line + 1], <<"T", "e", "x", "t", " ", "6", "0">>)
                     /\ endswith(ttg_file_list[line + 1], <<"6", "2">>)}
    IN  [line \in lines |-> ttg_file_list[line + 1]]

\* {line: text for line, text in enumerate(ttg_file_list, 1) if ...}
find_ttg_keywords(ttg_file_list) ==
    LET lines == {line \in 1..Len(ttg_file_list) :
                     /\ startswith(ttg_file_list[line], <<"T", "e", "x", "t", " ", "6", "0">>)
                     /\ endswith(ttg_file_list[line], <<"6", "2">>)}
    IN  [line \in lines |-> ttg_file_list[line]]

get_ttg_keywords(template_rows) ==
    LET ttg_keywords == find_ttg_keywords(template_rows)
    IN  [index \in DOMAIN ttg_keywords |-> convert_from_ttg_text(ttg_keywords[index])]

(***************************************************************************)
(* The Template Writer: the lines write_ttg writes to the opened file.     *)
(***************************************************************************)
\* dict(zip(keys, values)): a later pair replaces an earlier one of its key.
ZipDict(keys, values) ==
    LET n == IF Len(keys) < Len(values) THEN Len(keys) ELSE Len(values)
        last(k) == CHOOSE j \in 1..n : keys[j] = k /\ \A m \in (j + 1)..n : keys[m] # k
    IN  [k \in {keys[j] : j \in 1..n} |-> values[last(k)]]

\* The writer without the branch that passes over the encoded line.
RECURSIVE WriteFromKeeping(_, _, _, _)
WriteFromKeeping(template_rows, keywords, replacements, line_number) ==
    IF line_number > Len(template_rows) THEN <<>>
    ELSE (IF line_number + 1 \in DOMAIN keywords
          THEN LET keyword == keywords[line_number + 1]
                   new_text == IF keyword \in DOMAIN replacements
                               THEN replacements[keyword] ELSE <<>>
                   new_ttg_text == convert_to_ttg_text(new_text)
               IN  << <<"T", "e", "x", "t", "L", "e", "n", "g", "t", "h", " ">>
                          \o str(Len(split(new_ttg_text))),
                      <<"T", "e", "x", "t", " ">> \o new_ttg_text >>
          ELSE <<template_rows[line_number]>>)
         \o WriteFromKeeping(template_rows, keywords, replacements, line_number + 1)

RECURSIVE WriteFrom(_, _, _, _)
WriteFrom(template_rows, keywords, replacements, line_number) ==
    IF line_number > Len(template_rows) THEN <<>>
    ELSE (IF line_number + 1 \in DOMAIN keywords
          THEN LET keyword == keywords[line_number + 1]
                   new_text == IF keyword \in DOMAIN replacements
                               THEN replacements[keyword] ELSE <<>>
                   new_ttg_text == convert_to_ttg_text(new_text)
               IN  << <<"T", "e", "x", "t", "L", "e", "n", "g", "t", "h", " ">>
                          \o str(Len(split(new_ttg_text))),
                      <<"T", "e", "x", "t", " ">> \o new_ttg_text >>
          ELSE IF line_number \in DOMAIN keywords THEN <<>>
          ELSE <<template_rows[line_number]>>)
         \o WriteFrom(template_rows, keywords, replacements, line_number + 1)

write_ttg_lines(template_rows, keywords, replacements) ==
    WriteFrom(template_rows, keywords, replacements, 1)

(***************************************************************************)
(* Bounds and the inputs a run is started with.                            *)
(***************************************************************************)
\* The largest number of rows of a table.
MaxRows == 3

\* The line of the HTML template that write_html_page replaces.
HtmlInsertLine == 40

HTML_FILENAME ==
    <<"c", "o", "p", "y", "_", "p", "a", "s", "t", "e", "r", ".", "h", "t", "m", "l">>

\* The rows tables are made of: a header, two data rows (the second with an
\* empty cell) and a row of empty cells.
RowPool ==
    { << <<"A">>, <<"B">> >>,
      << <<"x">>, <<"y">> >>,
      << <<"y">>, <<>> >>,
      << <<>>, <<>> >> }

Tables == UNION {[1..n -> RowPool] : n \in 0..MaxRows}

\* The table of header Title, Duration and row 'Spot A', '30'.
SpotTable ==
    << << <<"T", "i", "t", "l", "e">>, <<"D", "u", "r", "a", "t", "i", "o", "n">> >>,
       << <<"S", "p", "o", "t", " ", "A">>, <<"3", "0">> >> >>

\* The output pattern <Title>_<Duration>.ttg
SpotOutput ==
    <<"<", "T", "i", "t", "l", "e", ">", "_",
      "<", "D", "u", "r", "a", "t", "i", "o", "n", ">", ".", "t", "t", "g">>

\* Tables with a row of no cells, and with a line break inside a cell.
OddTables ==
    { SpotTable,
      << << <<"A">>, <<"B">> >>, <<>>, << <<"x">>, <<"y">> >> >>,
      << << <<"A">>, <<"B">> >>, << <<"x">>, <<"y", "\n">> >> >>,
      << << <<"A">>, <<"B">> >>, << <<"x", "\r">>, <<"y">> >> >> }

\* What the path csv_file names: a readable file of rows, or no file.
CsvFiles ==
    {[status |-> "ok", rows |-> t] : t \in Tables \cup OddTables}
        \cup {[status |-> "missing", rows |-> <<>>]}

\* A template with one keyword slot, <A>, on its lines 1 and 2.
SlotTemplate ==
    << <<"T", "e", "x", "t", "L", "e", "n", "g", "t", "h", " ", "3">>,
       <<"T", "e", "x", "t", " ", "6", "0", " ", "6", "5", " ", "6", "2">>,
       <<"E", "n", "d">> >>

PlainTemplate == << <<"E", "n", "d">> >>

\* A template with the keyword slot <Name> on its lines 5 and 6.
NameTemplate ==
    << <<"a">>, <<"b">>, <<"c">>, <<"d">>,
       <<"T", "e", "x", "t", "L", "e", "n", "g", "t", "h", " ", "6">>,
       <<"T", "e", "x", "t", " ", "6", "0", " ", "7", "8", " ", "9", "7", " ",
         "1", "0", "9", " ", "1", "0", "1", " ", "6", "2">> >>

\* A template whose first line is an encoded line, <A>.
FirstLineTemplate ==
    << <<"T", "e", "x", "t", " ", "6", "0", " ", "6", "5", " ", "6", "2">>,
       <<"E", "n", "d">> >>

\* A template with two encoded lines, <A> and <B>, one after the other.
AdjacentTemplate ==
    << <<"T", "e", "x", "t", "L", "e", "n", "g", "t", "h", " ", "3">>,
       <<"T", "e", "x", "t", " ", "6", "0", " ", "6", "5", " ", "6", "2">>,
       <<"T", "e", "x", "t", " ", "6", "0", " ", "6", "6", " ", "6", "2">>,
       <<"E", "n", "d">> >>

\* What template_ttg is: no path (None or ''), or a path that names a
\* readable file, no file, or a file that cannot be read.
TtgFiles ==
    { [given |-> FALSE, status |-> "missing", lines |-> <<>>],
      [given |-> TRUE, status |-> "missing", lines |-> <<>>],
      [given |-> TRUE, status |-> "unreadable", lines |-> <<>>],
      [given |-> TRUE, status |-> "ok", lines |-> PlainTemplate],
      [given |-> TRUE, status |-> "ok", lines |-> SlotTemplate],
      [given |-> TRUE, status |-> "ok", lines |-> NameTemplate],
      [given |-> TRUE, status |-> "ok", lines |-> FirstLineTemplate],
      [given |-> TRUE, status |-> "ok", lines |-> AdjacentTemplate] }

\* An HTML template of n lines, line k reading 'h' and the number k.
HtmlLines(n) == [k \in 1..n |-> <<"h">> \o str(k)]

HtmlFiles ==
    { [status |-> "ok", lines |-> HtmlLines(HtmlInsertLine + 1)],
      [status |-> "ok", lines |-> HtmlLines(HtmlInsertLine - 1)],
      [status |-> "missing", lines |-> <<>>] }

\* Output patterns: by position, by name, with a directory, empty, with a
\* token that is not closed, and with automatic numbering.
Outputs ==
    { <<"<", "0", ">">>,
      <<"<", "A", ">">>,
      <<"<", "B", ">">>,
      <<"<", "1", ">">>,
      <<"d", "/", "<", "A", ">">>,
      <<"d", "/", "<", "0", ">">>,
      <<"<", "y", ">">>,
      <<"d", "/", "<", "1", ">", "/", "<", "0", ">">>,
      SpotOutput,
      <<>>,
      <<"<", "A">>,
      <<"<", ">", "<", "2", ">">> }

\* Row selections, as expand_row_notation returns them.
RowSets == {{}, {2}, {1, 3}}

OldContent == << <<"o", "l", "d">> >>

\* The files that exist before the run, each holding OldContent.
ExistingSets == {{}, {<<"x">>}, {<<"x">>, <<"y">>}}

\* The arguments of the constructor, with their defaults where the
\* constructor has one, and the file system the run meets: the files that
\* exist, the paths open() refuses to write and the directories makedirs
\* fails to create with an error other than ENOENT and EEXIST.
DefaultArgs ==
    [ output |-> <<"<", "0", ">">>,
      dry_run |-> FALSE,
      html |-> TRUE,
      filter_include |-> <<>>,
      filter_exclude |-> <<>>,
      force_overwrite |-> FALSE,
      row_header |-> 1,
      row_exclude |-> {},
      row_include |-> {},
      skip_existing |-> FALSE,
      template_html |-> [status |-> "ok", lines |-> HtmlLines(HtmlInsertLine + 1)],
      template_ttg |-> [given |-> TRUE, status |-> "ok", lines |-> SlotTemplate],
      existing |-> {<<"x">>},
      unwritable |-> {},
      denied |-> {} ]

\* The runs explored: the overwrite policy against the files that exist,
\* the row and glob filters, the output patterns against the templates, the
\* manifest options, and the failures of the file system.
OverwriteArgs ==
    { [DefaultArgs EXCEPT !.force_overwrite = f, !.skip_existing = s,
                          !.dry_run = d, !.existing = e] :
        f \in BOOLEAN, s \in BOOLEAN, d \in BOOLEAN, e \in ExistingSets }

FilterArgs ==
    { [DefaultArgs EXCEPT !.force_overwrite = TRUE, !.row_header = h,
                          !.row_include = i, !.row_exclude = e,
                          !.filter_include = gi, !.filter_exclude = ge] :
        h \in {1, 2}, i \in RowSets, e \in RowSets,
        gi \in {<<>>, << <<"x", "*">> >>}, ge \in {<<>>, << <<"?">>, <<"d", "*">> >>} }

OutputArgs ==
    { [DefaultArgs EXCEPT !.force_overwrite = TRUE, !.output = o,
                          !.template_ttg = t] :
        o \in Outputs, t \in TtgFiles }

\* The header row against the patterns that name a column.
HeaderArgs ==
    { [DefaultArgs EXCEPT !.force_overwrite = TRUE, !.row_header = h, !.output = o] :
        h \in {2, 3}, o \in {<<"<", "A", ">">>, <<"<", "y", ">">>, <<"<", "1", ">">>} }

ManifestArgs ==
    { [DefaultArgs EXCEPT !.force_overwrite = TRUE, !.html = h, !.dry_run = d,
                          !.template_html = t, !.output = o] :
        h \in BOOLEAN, d \in BOOLEAN, t \in HtmlFiles,
        o \in {<<"<", "0", ">">>, <<"d", "/", "<", "0", ">">>, HTML_FILENAME} }

FailureArgs ==
    { [DefaultArgs EXCEPT !.force_overwrite = f, !.output = o,
                          !.unwritable = u, !.denied = n] :
        f \in BOOLEAN,
        o \in {<<"<", "0", ">">>, <<"d", "/", "<", "0", ">">>},
        u \in {{}, {<<"y">>}, {<<"d", "/", "x">>, HTML_FILENAME}},
        n \in {{}, {<<"d">>}} }

Args ==
    OverwriteArgs \cup FilterArgs \cup OutputArgs \cup HeaderArgs
        \cup ManifestArgs \cup FailureArgs

(***************************************************************************)
(* The state of a PySlater object and of the file system it runs on.       *)
(***************************************************************************)
VARIABLES
    csv_file, output, dry_run, html, filter_include, filter_exclude,
    row_header, row_include, row_exclude, template_html, template_ttg,
    force_overwrite, skip_existing,
    csv_rows, filepath_pattern, template_ttg_rows, template_ttg_keywords,
    filepath, reply, row_number, template_html_rows, destination_html,
    results,
    files, dirs, unwritable, denied,
    pc, index, exception, messages, queries, produced,
    previous,
    string, returned, called,
    filter_include_enabled, filter_exclude_enabled,
    filter_include_btn_enabled, filter_exclude_btn_enabled,
    template_enabled, html_enabled,
    window_filter_include, window_filter_exclude, clicked

\* The arguments run() only reads.
args == <<csv_file, output, dry_run, html, filter_include, filter_exclude,
          row_header, row_include, row_exclude, template_html, template_ttg>>

\* What run() loads before the row loop.
loaded == <<csv_rows, filepath_pattern, template_ttg_rows, template_ttg_keywords>>

policy == <<force_overwrite, skip_existing, reply>>

manifest == <<template_html_rows, destination_html>>

\* The file system: files maps the path of each file to its lines.
disk == <<files, dirs, unwritable, denied>>

\* The place of run().
control == <<pc, exception>>

\* The PySlater object, its run and the files.
slater == <<args, loaded, policy, manifest, disk, filepath, row_number, results,
            control, index, messages, queries, produced, previous>>

\* A call of one of the static methods by itself: its argument, what it
\* returned and the methods called so far.
call == <<string, returned, called>>

\* The widgets of the window: the line edits that are enabled, the push
\* buttons that are checked, the texts of the filter line edits and the
\* widget clicked or typed into last.
window == <<filter_include_enabled, filter_exclude_enabled,
            filter_include_btn_enabled, filter_exclude_btn_enabled,
            template_enabled, html_enabled,
            window_filter_include, window_filter_exclude, clicked>>

aside == <<call, window>>

vars == <<slater, aside>>

\* The state after PySlater(...): __init__ stores the arguments and clears
\* the rest.  pc is the place of run(): "new" before the call, "rows" in the
\* row loop (index is the row the loop visits next), "html" after the loop,
\* "done" after the return, "raised" when an exception left run(), exception
\* then being its type and the line of run() it came through.
\* queries lists the rows overwrite_query was called for; produced[k] is the
\* row that appended results[k], 0 for the manifest.
Constructed(a, f) ==
    /\ csv_file = f
    /\ output = a.output
    /\ dry_run = a.dry_run
    /\ html = a.html
    /\ filter_include = a.filter_include
    /\ filter_exclude = a.filter_exclude
    /\ force_overwrite = a.force_overwrite
    /\ row_header = a.row_header
    /\ row_include = a.row_include
    /\ row_exclude = a.row_exclude
    /\ skip_existing = a.skip_existing
    /\ template_html = a.template_html
    /\ template_ttg = a.template_ttg
    /\ csv_rows = <<>>
    /\ filepath_pattern = [isNone |-> FALSE, text |-> <<>>]
    /\ template_ttg_rows = <<>>
    /\ template_ttg_keywords = <<>>
    /\ filepath = <<>>
    /\ reply = ""
    /\ row_number = 0
    /\ template_html_rows = <<>>
    /\ destination_html = <<>>
    /\ results = <<>>
    /\ files = [path \in a.existing |-> OldContent]
    /\ dirs = {}
    /\ unwritable = a.unwritable
    /\ denied = a.denied
    /\ pc = "new"
    /\ index = 0
    /\ exception = [type |-> "", line |-> 0]
    /\ messages = <<>>
    /\ queries = <<>>
    /\ produced = <<>>
    /\ previous = [ran |-> FALSE, results |-> <<>>, files |-> <<>>]

\* No static method was called by itself.
NoCall == string = <<>> /\ returned = <<>> /\ called = <<>>

\* The window as MainWindow.__init__ builds it: the filter buttons are not
\* checked and their line edits are empty and not enabled; the template
\* and HTML line edits are enabled.
WindowOpened ==
    /\ filter_include_enabled = FALSE
    /\ filter_exclude_enabled = FALSE
    /\ filter_include_btn_enabled = FALSE
    /\ filter_exclude_btn_enabled = FALSE
    /\ template_enabled = TRUE
    /\ html_enabled = TRUE
    /\ window_filter_include = <<>>
    /\ window_filter_exclude = <<>>
    /\ clicked = ""

Init ==
    /\ \E a \in Args, f \in CsvFiles : Constructed(a, f)
    /\ NoCall
    /\ WindowOpened

(***************************************************************************)
(* Messages.  A message is its fixed words, the path it names if any, and  *)
(* the 1-based row number message_row puts in front (0: no row prefix).    *)
(***************************************************************************)
Message(text) == [row |-> 0, text |-> text, path |-> <<>>]

\* message_row: 'Row NN - ...', NN being self.row_number + 1.
message_row(number, text, path) == [row |-> number + 1, text |-> text, path |-> path]

(***************************************************************************)
(* run(), before the row loop.                                             *)
(***************************************************************************)
\* A cell with '\n' or '\r' in it.
HasLineBreak(entry) == \E k \in 1..Len(entry) : entry[k] \in {"\n", "\r"}

\* read_unicode_csv_file: the rows, or () and a message.
CsvOutcome(file) ==
    IF file.status # "ok" THEN [rows |-> <<>>, said |-> <<Message("CSV file not found!")>>]
    ELSE IF \E r \in 1..Len(file.rows) : \E c \in 1..Len(file.rows[r]) :
                HasLineBreak(file.rows[r][c])
    THEN [rows |-> <<>>, said |-> <<Message("CSV file not valid!")>>]
    ELSE [rows |-> file.rows, said |-> <<>>]

\* path.replace('<', '{').replace('>', '}')
ReplaceBrackets(path) ==
    [k \in 1..Len(path) |->
        IF path[k] = "<" THEN "{" ELSE IF path[k] = ">" THEN "}" ELSE path[k]]

\* convert_output_tokens: the converted pattern, or None and a message.
convert_output_tokens(path) ==
    IF path = <<>>
    THEN [pattern |-> [isNone |-> TRUE, text |-> <<>>],
          said |-> <<Message("Output argument cannot be empty!")>>]
    ELSE [pattern |-> [isNone |-> FALSE, text |-> ReplaceBrackets(path)], said |-> <<>>]

\* read_ttg_file: the lines, or [] and a message when there is no file.
TtgOutcome(template) ==
    IF ~template.given THEN [rows |-> <<>>, said |-> <<>>]
    ELSE IF template.status = "missing"
    THEN [rows |-> <<>>, said |-> <<Message("TTG Template file not found!")>>]
    ELSE [rows |-> template.lines, said |-> <<>>]

\* Lines 780-796 of run().  A template file that cannot be read raises out
\* of run().
Start ==
    /\ pc = "new"
    /\ LET csv == CsvOutcome(csv_file)
           out == convert_output_tokens(output)
           ttg == TtgOutcome(template_ttg)
           keywords == IF template_ttg.given THEN get_ttg_keywords(ttg.rows) ELSE <<>>
       IN  /\ csv_rows' = csv.rows
           /\ filepath_pattern' = out.pattern
           /\ IF template_ttg.given /\ template_ttg.status = "unreadable"
              THEN /\ pc' = "raised"
                   /\ exception' = [type |-> "OSError", line |-> 782]
                   /\ messages' = messages \o csv.said \o out.said
                   /\ UNCHANGED <<template_ttg_rows, template_ttg_keywords>>
              ELSE /\ pc' = "rows"
                   /\ UNCHANGED exception
                   /\ template_ttg_rows' = ttg.rows
                   /\ template_ttg_keywords' = keywords
                   /\ messages' = messages \o csv.said \o out.said \o ttg.said
                          \o <<Message("Found keywords in template")>>
                          \o (IF DOMAIN keywords # {} THEN <<Message("keywords")>> ELSE <<>>)
                          \o (IF csv.rows # <<>> THEN <<Message("Found rows in CSV")>> ELSE <<>>)
    /\ UNCHANGED <<aside, args, previous, policy, manifest, disk, filepath, row_number, results,
                   index, queries, produced>>

(***************************************************************************)
(* The row loop of run(): one action per way a row leaves the loop body.   *)
(***************************************************************************)
InLoop == pc = "rows" /\ index < Len(csv_rows)

\* csv_row_data for the 0-based row number.
RowData(number) == csv_rows[number + 1]

\* list_offset that leaves the numbers as they are.
list_offset_unshifted(list_of_integers, offset) == list_of_integers

list_offset(list_of_integers, offset) == {x + offset : x \in list_of_integers}

\* The row rules with the header row looked for before the empty row.
RowRuleHeaderFirst(number) ==
    IF (row_header - 1) = number
    THEN "Skipping - Header row"
    ELSE IF \A k \in 1..Len(RowData(number)) : RowData(number)[k] = <<>>
    THEN "Skipping - Empty row"
    ELSE IF row_exclude # {} /\ number \in list_offset(row_exclude, -1)
    THEN "Skipping - Row excluded"
    ELSE IF row_include # {} /\ number \notin list_offset(row_include, -1)
    THEN "Skipping - Row not included"
    ELSE "pass"

\* Lines 802-822: the message of the first row rule that skips the row, or
\* "pass".
RowRule(number) ==
    IF \A k \in 1..Len(RowData(number)) : RowData(number)[k] = <<>>
    THEN "Skipping - Empty row"
    ELSE IF (row_header - 1) = number
    THEN "Skipping - Header row"
    ELSE IF row_exclude # {} /\ number \in list_offset(row_exclude, -1)
    THEN "Skipping - Row excluded"
    ELSE IF row_include # {} /\ number \notin list_offset(row_include, -1)
    THEN "Skipping - Row not included"
    ELSE "pass"

\* filepath_replacements['column']: None for an empty cell.
Column(row) ==
    [k \in 1..Len(row) |->
        IF row[k] = <<>> THEN [isNone |-> TRUE, text |-> <<>>]
        ELSE [isNone |-> FALSE, text |-> tidy_text(row[k])]]

\* filepath_replacements['keyword']: the names are the cells of the first
\* row of the table; a name whose cell is empty is left out.
Keyword(names, row) ==
    LET n == IF Len(names) < Len(row) THEN Len(names) ELSE Len(row)
        kept == {j \in 1..n : row[j] # <<>>}
        last(k) == CHOOSE j \in kept : names[j] = k /\ \A m \in kept : names[m] = k => m <= j
    IN  [k \in {names[j] : j \in kept} |-> tidy_text(row[last(k)])]

\* Lines 837-840: the formatted path, or the exception.
Resolve(number) ==
    Format(filepath_pattern, Column(RowData(number)), Keyword(csv_rows[1], RowData(number)))

\* Lines 846-861: the message of the glob filter that skips the path, or
\* "pass".
GlobRule(path) ==
    IF filter_exclude # <<>>
       /\ \E k \in 1..Len(filter_exclude) : fnmatch(path, filter_exclude[k])
    THEN "matches exclude filter"
    ELSE IF filter_include # <<>>
            /\ ~\E k \in 1..Len(filter_include) : fnmatch(path, filter_include[k])
    THEN "does not match include filter"
    ELSE "pass"

\* The row reaches line 863: no rule skips it and its path resolves.
Proceeds(number) ==
    /\ RowRule(number) = "pass"
    /\ Resolve(number).err = "none"
    /\ GlobRule(Resolve(number).text) = "pass"

\* os.path.isfile(path)
isfile(path) == path \in DOMAIN files

\* Lines 866-867: the overwrite check is made, and finds the file.
Exists(path) == DOMAIN template_ttg_keywords # {} /\ isfile(path)

\* Lines 863-870.
Proceeding(number, path) ==
    <<message_row(number, "Proceeding with", filename_no_ext(path))>>
        \o (IF Exists(path) THEN <<message_row(number, "Warning! already exists!", path)>>
            ELSE <<>>)

\* Lines 874-876: the row is skipped for its file exists.
SkipsExisting(path) == Exists(path) /\ skip_existing

\* Asks, forgetting the skip_existing flag.
AsksIgnoringSkip(path) == Exists(path) /\ ~force_overwrite

\* Asks, forgetting the force_overwrite flag.
AsksIgnoringForce(path) == Exists(path) /\ ~skip_existing

\* Line 877: overwrite_query is called.
Asks(path) == Exists(path) /\ ~force_overwrite /\ ~skip_existing

\* A row rule skips the row (lines 802-822).
SkipRow ==
    /\ InLoop
    /\ RowRule(index) # "pass"
    /\ row_number' = index
    /\ index' = index + 1
    /\ messages' = Append(messages, message_row(index, RowRule(index), <<>>))
    /\ UNCHANGED <<aside, args, previous, loaded, policy, manifest, disk, filepath, results, control,
                   queries, produced>>

\* The path does not resolve: IndexError or KeyError (lines 842-844).
SkipUnresolved ==
    /\ InLoop
    /\ RowRule(index) = "pass"
    /\ Resolve(index).err \in {"IndexError", "KeyError"}
    /\ row_number' = index
    /\ index' = index + 1
    /\ messages' = Append(messages,
           message_row(index, "Skipping - Could not assemble output path.", <<>>))
    /\ UNCHANGED <<aside, args, previous, loaded, policy, manifest, disk, filepath, results, control,
                   queries, produced>>

\* format raises an exception line 842 does not catch: the pattern is None
\* (AttributeError) or malformed (ValueError).
RaiseFormat ==
    /\ InLoop
    /\ RowRule(index) = "pass"
    /\ Resolve(index).err \in {"AttributeError", "ValueError"}
    /\ row_number' = index
    /\ pc' = "raised"
    /\ exception' = [type |-> Resolve(index).err, line |-> 838]
    /\ UNCHANGED <<aside, args, previous, loaded, policy, manifest, disk, filepath, results, index,
                   messages, queries, produced>>

\* A glob filter skips the path (lines 846-861).
SkipFiltered ==
    /\ InLoop
    /\ RowRule(index) = "pass"
    /\ Resolve(index).err = "none"
    /\ GlobRule(Resolve(index).text) # "pass"
    /\ row_number' = index
    /\ filepath' = Resolve(index).text
    /\ index' = index + 1
    /\ messages' = messages \o
           <<message_row(index, GlobRule(Resolve(index).text), Resolve(index).text),
             message_row(index, "Skipping", Resolve(index).text)>>
    /\ UNCHANGED <<aside, args, previous, loaded, policy, manifest, disk, results, control, queries,
                   produced>>

\* The file exists and skip_existing is set (lines 874-876).
SkipExisting ==
    /\ InLoop
    /\ Proceeds(index)
    /\ SkipsExisting(Resolve(index).text)
    /\ row_number' = index
    /\ filepath' = Resolve(index).text
    /\ index' = index + 1
    /\ messages' = messages \o Proceeding(index, Resolve(index).text)
                       \o <<message_row(index, "Skipping", Resolve(index).text)>>
    /\ UNCHANGED <<aside, args, previous, loaded, policy, manifest, disk, results, control, queries,
                   produced>>

\* self.csv_rows[self.row_header - 1] of line 898 raises IndexError.
HeaderOutOfRange ==
    (row_header - 1) >= Len(csv_rows) \/ (row_header - 1) < 0 - Len(csv_rows)

\* self.csv_rows[self.row_header - 1], a negative index counting from the end.
HeaderRow ==
    IF row_header - 1 >= 0 THEN csv_rows[row_header] ELSE csv_rows[Len(csv_rows) + row_header]

\* The names of the first row of the table to the cells of the row.
ttg_replacements_first_row(number) == ZipDict(csv_rows[1], RowData(number))

\* Line 898: the names of the header row to the cells of the row.
ttg_replacements(number) == ZipDict(HeaderRow, RowData(number))

\* The document is written whether the run is a dry run or not.
WritesInDryRun == DOMAIN template_ttg_keywords # {}

\* Line 900: the document is written.
Writes == DOMAIN template_ttg_keywords # {} /\ ~dry_run

\* makedirs(filepath) raises: a directory to create is one os.makedirs fails
\* on with an error other than ENOENT and EEXIST.
MakedirsRaises(path) ==
    /\ dirname(path) # <<>>
    /\ dirname(path) \notin dirs
    /\ dirname(path) \notin DOMAIN files
    /\ (Ancestors(dirname(path)) \ dirs) \cap denied # {}

\* The directories after makedirs(filepath) returned.
MakedirsDone(path) ==
    IF dirname(path) = <<>> \/ dirname(path) \in DOMAIN files THEN dirs
    ELSE dirs \cup Ancestors(dirname(path))

\* open(path, 'w') raises OSError, the directories being ds.
OpenFails(path, ds) ==
    \/ path = <<>>
    \/ path \in unwritable
    \/ path \in ds
    \/ dirname(path) # <<>> /\ dirname(path) \notin ds

\* The path put in front of the list instead of at its end.
Prepended(list, path) == <<path>> \o list

\* self.results.append(path)
Appended(list, path) == Append(list, path)

\* Lines 892-905 for the row index and its path, said being the messages
\* of the row so far: the document is written and the path appended.
WriteAndAppend(path, said) ==
    /\ row_number' = index
    /\ filepath' = path
    /\ IF DOMAIN template_ttg_keywords # {} /\ HeaderOutOfRange
       THEN /\ pc' = "raised"
            /\ exception' = [type |-> "IndexError", line |-> 898]
            /\ messages' = messages \o said \o <<message_row(index, "Writing out", path)>>
            /\ UNCHANGED <<files, dirs, results, produced, index>>
       ELSE IF Writes /\ MakedirsRaises(path)
       THEN /\ pc' = "raised"
            /\ exception' = [type |-> "OSError", line |-> 901]
            /\ messages' = messages \o said \o <<message_row(index, "Writing out", path)>>
            /\ UNCHANGED <<files, dirs, results, produced, index>>
       ELSE /\ UNCHANGED control
            /\ dirs' = IF Writes THEN MakedirsDone(path) ELSE dirs
            /\ files' = IF Writes /\ ~OpenFails(path, MakedirsDone(path))
                        THEN [p \in DOMAIN files \cup {path} |->
                                 IF p = path
                                 THEN write_ttg_lines(template_ttg_rows,
                                          template_ttg_keywords, ttg_replacements(index))
                                 ELSE files[p]]
                        ELSE files
            /\ messages' = messages \o said
                   \o (IF DOMAIN template_ttg_keywords # {}
                       THEN <<message_row(index, "Writing out", path)>> ELSE <<>>)
                   \o (IF Writes /\ OpenFails(path, MakedirsDone(path))
                       THEN <<Message("Skipping! Cannot write to this path.")>> ELSE <<>>)
            /\ results' = Appended(results, path)
            /\ produced' = Append(produced, index + 1)
            /\ index' = index + 1
    /\ UNCHANGED <<aside, args, previous, loaded, manifest, unwritable, denied>>

\* No overwrite decision stops the row: there is no keyword, no file, or
\* force_overwrite is set and skip_existing is not.
WriteRow ==
    /\ InLoop
    /\ Proceeds(index)
    /\ ~SkipsExisting(Resolve(index).text)
    /\ ~Asks(Resolve(index).text)
    /\ WriteAndAppend(Resolve(index).text, Proceeding(index, Resolve(index).text))
    /\ UNCHANGED <<policy, queries>>

\* overwrite_query returns one of its valid responses.
valid_responses == {"y", "n", "Y", "N"}

\* ReplySkips, the continue after 'N' left out.
ReplySkipsOnce(result) == result = "n"

\* Lines 883-885 and 888-890: the replies that end the row with continue.
ReplySkips(result) == result \in {"n", "N"}

\* The file exists and no flag is set: the user is asked (lines 877-890).
Query ==
    /\ InLoop
    /\ Proceeds(index)
    /\ Asks(Resolve(index).text)
    /\ \E result \in valid_responses :
        /\ reply' = result
        /\ queries' = Append(queries, index + 1)
        /\ force_overwrite' = IF result = "Y" THEN TRUE ELSE force_overwrite
        /\ skip_existing' = IF result = "N" THEN TRUE ELSE skip_existing
        /\ IF ReplySkips(result)
           THEN /\ row_number' = index
                /\ filepath' = Resolve(index).text
                /\ index' = index + 1
                /\ messages' = messages \o Proceeding(index, Resolve(index).text)
                       \o (IF result = "n"
                           THEN <<message_row(index, "Skipping", Resolve(index).text)>>
                           ELSE <<>>)
                /\ UNCHANGED <<aside, args, previous, loaded, manifest, disk, results, control, produced>>
           ELSE WriteAndAppend(Resolve(index).text, Proceeding(index, Resolve(index).text))

(***************************************************************************)
(* The Manifest Writer and the end of run() (lines 907-922).               *)
(***************************************************************************)
ButtonOpen ==
    <<" ", " ", "<", "b", "u", "t", "t", "o", "n">>

ButtonPayload ==
    <<" ", " ", " ", " ", " ", " ", " ", " ", "d", "a", "t", "a",
      "-", "c", "l", "i", "p", "b", "o", "a", "r", "d", "-", "t",
      "e", "x", "t", "=", "\"">>

ButtonLabel == <<"\"", ">">>

ButtonClose ==
    <<"<", "/", "b", "u", "t", "t", "o", "n", ">">>

\* html_line.replace('master_name_goes_here', entry): the two lines of one
\* generated entry.
html_entry(entry) ==
    <<ButtonOpen, ButtonPayload \o entry \o ButtonLabel \o entry \o ButtonClose>>

\* The entry of the first replacement only.
EntriesFirst(list_of_replacements) ==
    IF list_of_replacements = <<>> THEN <<>>
    ELSE html_entry(Head(list_of_replacements))

RECURSIVE Entries(_)
Entries(list_of_replacements) ==
    IF list_of_replacements = <<>> THEN <<>>
    ELSE html_entry(Head(list_of_replacements)) \o Entries(Tail(list_of_replacements))

\* The writer that puts the entries before the line at the insertion index
\* and keeps that line.
RECURSIVE HtmlFromInserting(_, _, _, _)
HtmlFromInserting(rows, line_number_to_replace, list_of_replacements, line_number) ==
    IF line_number > Len(rows) THEN <<>>
    ELSE (IF line_number = line_number_to_replace
          THEN Entries(list_of_replacements) ELSE <<>>)
         \o <<rows[line_number]>>
         \o HtmlFromInserting(rows, line_number_to_replace, list_of_replacements,
                 line_number + 1)

\* The lines write_html_page writes to the opened file.
RECURSIVE HtmlFrom(_, _, _, _)
HtmlFrom(rows, line_number_to_replace, list_of_replacements, line_number) ==
    IF line_number > Len(rows) THEN <<>>
    ELSE (IF line_number = line_number_to_replace
          THEN Entries(list_of_replacements) ELSE <<rows[line_number]>>)
         \o HtmlFrom(rows, line_number_to_replace, list_of_replacements, line_number + 1)

write_html_lines(rows, line_number_to_replace, list_of_replacements) ==
    HtmlFrom(rows, line_number_to_replace, list_of_replacements, 1)

\* read_html_template: the lines, or () and two messages.
HtmlOutcome(template) ==
    IF template.status = "ok" THEN [rows |-> template.lines, said |-> <<>>]
    ELSE [rows |-> <<>>,
          said |-> <<Message("HTML template file not found!"),
                     Message("Please check the HTML template exists.")>>]

\* Line 908: the manifest part of run() is entered.
WantsHtml == csv_rows # <<>> /\ html

\* Lines 909-910.
Destination == join(common_path(results), HTML_FILENAME)

\* Line 911.
ttg_filenames == [k \in 1..Len(results) |-> filename_no_ext(results[k])]

\* After the last row: the manifest is written if asked for, and run()
\* returns self.results.  makedirs and the open() of write_html_page raise
\* out of run().
Finish ==
    /\ pc = "rows"
    /\ index = Len(csv_rows)
    /\ IF ~WantsHtml
       THEN /\ pc' = "done"
            /\ messages' = Append(messages, Message("Done!"))
            /\ UNCHANGED <<manifest, files, dirs, results, produced, exception>>
       ELSE /\ destination_html' = Destination
            /\ template_html_rows' = HtmlOutcome(template_html).rows
            /\ IF dry_run \/ HtmlOutcome(template_html).rows = <<>>
               THEN /\ pc' = "done"
                    /\ messages' = messages \o HtmlOutcome(template_html).said
                                       \o <<Message("Done!")>>
                    /\ UNCHANGED <<files, dirs, results, produced, exception>>
               ELSE IF MakedirsRaises(Destination)
               THEN /\ pc' = "raised"
                    /\ exception' = [type |-> "OSError", line |-> 917]
                    /\ messages' = Append(messages, [Message("Writing out") EXCEPT !.path = Destination])
                    /\ UNCHANGED <<files, dirs, results, produced>>
               ELSE IF OpenFails(Destination, MakedirsDone(Destination))
               THEN /\ pc' = "raised"
                    /\ exception' = [type |-> "OSError", line |-> 918]
                    /\ dirs' = MakedirsDone(Destination)
                    /\ messages' = Append(messages, [Message("Writing out") EXCEPT !.path = Destination])
                    /\ UNCHANGED <<files, results, produced>>
               ELSE /\ pc' = "done"
                    /\ dirs' = MakedirsDone(Destination)
                    /\ files' = [p \in DOMAIN files \cup {Destination} |->
                                    IF p = Destination
                                    THEN write_html_lines(HtmlOutcome(template_html).rows,
                                             HtmlInsertLine, ttg_filenames)
                                    ELSE files[p]]
                    /\ results' = Appended(results, Destination)
                    /\ produced' = Append(produced, 0)
                    /\ UNCHANGED exception
                    /\ messages' = messages
                           \o <<[Message("Writing out") EXCEPT !.path = Destination],
                                Message("Done!")>>
    /\ UNCHANGED <<aside, args, previous, loaded, policy, unwritable, denied, filepath, row_number,
                   index, queries>>

(***************************************************************************)
(* The specification: a PySlater is constructed and run() is called; the   *)
(* window may then construct the next one and call its run().              *)
(***************************************************************************)
\* The results of the run before are kept.
KeptResults == results

\* The results start empty, as __init__ leaves them.
FreshResults == <<>>

\* The window passes skip_existing=True.
window_skip_existing_set == TRUE

\* Line 1431: force_overwrite=True.
window_force_overwrite == TRUE

\* Line 1436: skip_existing=False.
window_skip_existing == FALSE

\* The window's button is pressed again with its widgets as they were:
\* make_slates constructs a new PySlater of the same arguments, with
\* force_overwrite, no skip_existing, header row 1 and the defaults for
\* dry_run and the row sets, over the files the run before left.  previous
\* remembers what that run returned and the files it left.
make_slates ==
    /\ pc = "done"
    /\ force_overwrite /\ ~skip_existing /\ reply = ""
    /\ row_header = 1 /\ ~dry_run /\ row_include = {} /\ row_exclude = {}
    /\ previous' = [ran |-> TRUE, results |-> results, files |-> files]
    /\ csv_rows' = <<>>
    /\ filepath_pattern' = [isNone |-> FALSE, text |-> <<>>]
    /\ template_ttg_rows' = <<>>
    /\ template_ttg_keywords' = <<>>
    /\ filepath' = <<>>
    /\ row_number' = 0
    /\ template_html_rows' = <<>>
    /\ destination_html' = <<>>
    /\ results' = FreshResults
    /\ pc' = "new"
    /\ index' = 0
    /\ exception' = [type |-> "", line |-> 0]
    /\ messages' = <<>>
    /\ queries' = <<>>
    /\ produced' = <<>>
    /\ force_overwrite' = window_force_overwrite
    /\ skip_existing' = window_skip_existing
    /\ reply' = ""
    /\ UNCHANGED <<aside, args, disk>>

Next ==
    \/ make_slates
    \/ Start
    \/ SkipRow
    \/ SkipUnresolved
    \/ RaiseFormat
    \/ SkipFiltered
    \/ SkipExisting
    \/ Query
    \/ WriteRow
    \/ Finish

Spec == Init /\ [][Next]_vars

(***************************************************************************)
(* The Token Codec by itself: a string is encoded, made into the Text line *)
(* of a document as write_ttg makes it, and decoded.                       *)
(***************************************************************************)
MaxCodec == 4

\* The strings of at most n characters of the alphabet.
StringsOver(alphabet, n) == UNION {[1..k -> alphabet] : k \in 0..n}

CodecStrings == StringsOver({"<", ">", "a", " "}, MaxCodec)

\* The PySlater of the default arguments, not run, beside the calls.
Idle ==
    /\ Constructed(DefaultArgs, [status |-> "missing", rows |-> <<>>])
    /\ WindowOpened

InitCodec ==
    /\ Idle
    /\ string \in CodecStrings
    /\ returned = <<>>
    /\ called = <<>>

\* convert_to_ttg_text(string)
EncodeCall ==
    /\ called = <<>>
    /\ returned' = convert_to_ttg_text(string)
    /\ called' = <<"convert_to_ttg_text">>
    /\ UNCHANGED <<string, slater, window>>

\* Line 732: 'Text ' + new_ttg_text, the Text line of a document.
TextLine ==
    /\ called = <<"convert_to_ttg_text">>
    /\ returned' = <<"T", "e", "x", "t", " ">> \o returned
    /\ called' = Append(called, "Text")
    /\ UNCHANGED <<string, slater, window>>

\* convert_from_ttg_text of what was returned last.
DecodeCall ==
    /\ called \in {<<"convert_to_ttg_text">>, <<"convert_to_ttg_text", "Text">>}
    /\ returned' = convert_from_ttg_text(returned)
    /\ called' = Append(called, "convert_from_ttg_text")
    /\ UNCHANGED <<string, slater, window>>

NextCodec == EncodeCall \/ TextLine \/ DecodeCall

SpecCodec == InitCodec /\ [][NextCodec]_vars

(***************************************************************************)
(* The row notation: __init__ expands the row_include and row_exclude      *)
(* arguments (lines 436-437).                                              *)
(***************************************************************************)
MaxNotation == 5

NotationStrings == StringsOver({"1", "3", ",", "-", "a"}, MaxNotation)

\* The row_exclude arguments tried after row_include was expanded.
ExcludeNotations ==
    { <<>>, <<"3", "-", "1">>, <<"1", ",", "a">> }

\* s.split(c), c one character: the pieces between the separators, the
\* empty ones included.
RECURSIVE SplitOn(_, _)
SplitOn(s, c) ==
    IF IndexFrom(s, c, 1) = 0 THEN <<s>>
    ELSE <<Slice(s, 1, IndexFrom(s, c, 1) - 1)>>
             \o SplitOn(Slice(s, IndexFrom(s, c, 1) + 1, Len(s)), c)

\* int(x) returns, for a piece of a notation: x is one digit or more.  (The
\* alphabet has no white space, sign or underscore, which int() allows.)
IsInt(x) == x # <<>> /\ \A k \in 1..Len(x) : x[k] \in Digits

\* The frames of one element, from the first part to the last part.
frames_in_direction(element) ==
    LET parts == [j \in 1..Len(SplitOn(element, "-")) |->
                     DecValue(SplitOn(element, "-")[j])]
    IN  IF Len(parts) = 1 THEN {parts[1]}
        ELSE parts[1]..parts[Len(parts)]

\* Lines 517-522: the frames one element adds, its parts being integers.
frames_of(element) ==
    LET parts == [j \in 1..Len(SplitOn(element, "-")) |->
                     DecValue(SplitOn(element, "-")[j])]
        values == {parts[j] : j \in 1..Len(parts)}
        least == CHOOSE n \in values : \A m \in values : n <= m
        greatest == CHOOSE n \in values : \A m \in values : n >= m
    IN  IF Len(parts) = 1 THEN {parts[1]}
        ELSE least..greatest

\* expand_row_notation(string): the members of the list returned, or the
\* ValueError of int() for a part that is not an integer.
expand_row_notation(notation) ==
    LET elements == SplitOn(notation, ",")
    IN  IF \E k \in 1..Len(elements) :
              \E j \in 1..Len(SplitOn(elements[k], "-")) :
                  ~IsInt(SplitOn(elements[k], "-")[j])
        THEN [raised |-> "ValueError", frames |-> {}]
        ELSE [raised |-> "",
              frames |-> UNION {frames_of(elements[k]) : k \in 1..Len(elements)}]

InitNotation ==
    /\ Idle
    /\ string \in NotationStrings
    /\ returned = <<>>
    /\ called = <<>>

\* Line 436: row_include is expanded, if it is not empty; an exception
\* leaves __init__.
expand_row_include ==
    /\ called = <<>>
    /\ called' = <<"row_include">>
    /\ IF string = <<>>
       THEN row_include' = {} /\ UNCHANGED control
       ELSE IF expand_row_notation(string).raised # ""
       THEN /\ pc' = "raised"
            /\ exception' = [type |-> expand_row_notation(string).raised, line |-> 436]
            /\ UNCHANGED row_include
       ELSE /\ row_include' = expand_row_notation(string).frames
            /\ UNCHANGED control
    /\ UNCHANGED <<csv_file, output, dry_run, html, filter_include, filter_exclude,
                   row_header, row_exclude, template_html, template_ttg,
                   loaded, policy, manifest, disk, filepath, row_number, results,
                   index, messages, queries, produced, previous,
                   string, returned, window>>

\* Line 437: the same for row_exclude.
expand_row_exclude ==
    /\ called = <<"row_include">>
    /\ pc = "new"
    /\ called' = <<"row_include", "row_exclude">>
    /\ \E notation \in ExcludeNotations :
        /\ returned' = notation
        /\ IF notation = <<>>
           THEN row_exclude' = {} /\ UNCHANGED control
           ELSE IF expand_row_notation(notation).raised # ""
           THEN /\ pc' = "raised"
                /\ exception' = [type |-> expand_row_notation(notation).raised,
                                 line |-> 437]
                /\ UNCHANGED row_exclude
           ELSE /\ row_exclude' = expand_row_notation(notation).frames
                /\ UNCHANGED control
    /\ UNCHANGED <<csv_file, output, dry_run, html, filter_include, filter_exclude,
                   row_header, row_include, template_html, template_ttg,
                   loaded, policy, manifest, disk, filepath, row_number, results,
                   index, messages, queries, produced, previous,
                   string, window>>

NextNotation == expand_row_include \/ expand_row_exclude

SpecNotation == InitNotation /\ [][NextNotation]_vars

(***************************************************************************)
(* tidy_text by itself.                                                    *)
(***************************************************************************)
MaxText == 4

TidyTexts == StringsOver({"1", "0", ":", "a", "_", " "}, MaxText)

InitTidy ==
    /\ Idle
    /\ string \in TidyTexts
    /\ returned = <<>>
    /\ called = <<>>

\* tidy_text(string)
tidy_text_call ==
    /\ called = <<>>
    /\ returned' = tidy_text(string)
    /\ called' = <<"tidy_text">>
    /\ UNCHANGED <<string, slater, window>>

NextTidy == tidy_text_call

SpecTidy == InitTidy /\ [][NextTidy]_vars

(***************************************************************************)
(* The window by itself: the push buttons are clicked and the filter line  *)
(* edits are typed into.  A click on a checkable push button first flips   *)
(* its checked state and then emits the signal its handler is connected    *)
(* to (lines 971-979 and 1241-1244).                                       *)
(***************************************************************************)
\* What is typed into a filter line edit.
FilterTexts ==
    { <<>>, <<"x", "*">>, <<"?", ",", " ", "d", "*">> }

InitWindow ==
    /\ Constructed(DefaultArgs, [status |-> "missing", rows |-> <<>>])
    /\ NoCall
    /\ WindowOpened

\* The Exclude button is clicked (lines 1314-1325).
filter_exclude_btn_toggle ==
    /\ clicked' = "filter_exclude_btn"
    /\ filter_exclude_btn_enabled' = ~filter_exclude_btn_enabled
    /\ IF ~filter_exclude_enabled
       THEN /\ filter_exclude_enabled' = TRUE
            /\ filter_include_btn_enabled' = FALSE
            /\ filter_include_enabled' = FALSE
       ELSE /\ filter_exclude_enabled' = FALSE
            /\ UNCHANGED <<filter_include_btn_enabled, filter_include_enabled>>
    /\ UNCHANGED <<template_enabled, html_enabled, window_filter_include,
                   window_filter_exclude, slater, call>>

\* The Include button is clicked (lines 1327-1338).
filter_include_btn_toggle ==
    /\ clicked' = "filter_include_btn"
    /\ filter_include_btn_enabled' = ~filter_include_btn_enabled
    /\ IF ~filter_include_enabled
       THEN /\ filter_include_enabled' = TRUE
            /\ filter_exclude_btn_enabled' = FALSE
            /\ filter_exclude_enabled' = FALSE
       ELSE /\ filter_include_enabled' = TRUE
            /\ UNCHANGED <<filter_exclude_btn_enabled, filter_exclude_enabled>>
    /\ UNCHANGED <<template_enabled, html_enabled, window_filter_include,
                   window_filter_exclude, slater, call>>

\* The TTG Template button is clicked (lines 1340-1350).
ttg_btn_toggle ==
    /\ clicked' = "ttg_template_btn"
    /\ template_enabled' = ~template_enabled
    /\ UNCHANGED <<filter_include_enabled, filter_exclude_enabled,
                   filter_include_btn_enabled, filter_exclude_btn_enabled,
                   html_enabled, window_filter_include, window_filter_exclude,
                   slater, call>>

\* The HTML button is clicked (lines 1352-1362).
html_btn_toggle ==
    /\ clicked' = "html_btn"
    /\ html_enabled' = ~html_enabled
    /\ UNCHANGED <<filter_include_enabled, filter_exclude_enabled,
                   filter_include_btn_enabled, filter_exclude_btn_enabled,
                   template_enabled, window_filter_include, window_filter_exclude,
                   slater, call>>

\* The Include line edit, enabled, is typed into.
filter_include_edit ==
    /\ filter_include_enabled
    /\ \E text \in FilterTexts \ {window_filter_include} :
          window_filter_include' = text
    /\ clicked' = "filter_include_line_edit"
    /\ UNCHANGED <<filter_include_enabled, filter_exclude_enabled,
                   filter_include_btn_enabled, filter_exclude_btn_enabled,
                   template_enabled, html_enabled, window_filter_exclude,
                   slater, call>>

\* The Exclude line edit, enabled, is typed into.
filter_exclude_edit ==
    /\ filter_exclude_enabled
    /\ \E text \in FilterTexts \ {window_filter_exclude} :
          window_filter_exclude' = text
    /\ clicked' = "filter_exclude_line_edit"
    /\ UNCHANGED <<filter_include_enabled, filter_exclude_enabled,
                   filter_include_btn_enabled, filter_exclude_btn_enabled,
                   template_enabled, html_enabled, window_filter_include,
                   slater, call>>

NextWindow ==
    \/ filter_exclude_btn_toggle
    \/ filter_include_btn_toggle
    \/ ttg_btn_toggle
    \/ html_btn_toggle
    \/ filter_include_edit
    \/ filter_exclude_edit

SpecWindow == InitWindow /\ [][NextWindow]_vars

(***************************************************************************)
(* The Overwrite Arbiter.                                                  *)
(***************************************************************************)
\* The loop is at a row that reaches the overwrite check and whose file
\* exists.
ExistingRow == InLoop /\ Proceeds(index) /\ Exists(Resolve(index).text)

\* The step ends the row with continue: nothing is appended or written.
Skipped == index' = index + 1 /\ results' = results /\ files' = files /\ pc' = pc

\* The document of the row: the template with the row's values.
Rendered(number) ==
    write_ttg_lines(template_ttg_rows, template_ttg_keywords, ttg_replacements(number))

\* The step takes the row through lines 892-905: unless an exception leaves
\* run(), its path is appended, and when the file is written (no dry run,
\* open() succeeds) the file holds the document of the row and nothing else.
GoesToWrite ==
    \/ pc' = "raised"
    \/ /\ index' = index + 1
       /\ results' = Append(results, Resolve(index).text)
       /\ (Writes /\ ~OpenFails(Resolve(index).text, dirs')) =>
              /\ Resolve(index).text \in DOMAIN files'
              /\ files'[Resolve(index).text] = Rendered(index)

\* C1: for a row whose path exists as a file (the keyword map not empty):
\* with skip_existing the row is skipped and its path is not appended; with
\* force_overwrite the path is appended and the file holds the template
\* rendered with the row's values, nothing of the old content.
C1_SkipOrOverwrite ==
    [][ExistingRow =>
           /\ skip_existing => Skipped
           /\ force_overwrite => GoesToWrite]_vars

\* C2: the arbiter looks at force_overwrite before skip_existing: a row
\* whose path exists goes on to be written whenever force_overwrite is
\* set, whatever skip_existing is.
C2_ForceFirst == [][(ExistingRow /\ force_overwrite) => ~Skipped]_vars

\* C3: overwrite_query is called for a row only when the keyword map is not
\* empty, the path exists and neither flag is set; the flags are never
\* cleared, so a run started with a flag set never asks.
C3_AsksOnlyWithoutFlags ==
    [][/\ queries' # queries =>
              /\ InLoop
              /\ DOMAIN template_ttg_keywords # {}
              /\ isfile(Resolve(index).text)
              /\ ~force_overwrite /\ ~skip_existing
              /\ queries' = Append(queries, index + 1)
       /\ force_overwrite => force_overwrite'
       /\ skip_existing => skip_existing']_vars

\* A run that asked is over.
C3_Asked == pc = "done" /\ queries # <<>>

\* C4: the reply 'y' writes the row and 'n' skips it, the flags unchanged;
\* 'Y' sets force_overwrite and writes the row; 'N' sets skip_existing and
\* skips the row; after 'Y' or 'N' no row is asked about, and every row
\* whose path exists is written (after 'Y') or skipped (after 'N').
C4_ReplyProtocol ==
    [][/\ queries' # queries =>
              /\ reply' \in {"y", "n"} =>
                     force_overwrite' = force_overwrite /\ skip_existing' = skip_existing
              /\ reply' = "Y" => force_overwrite' /\ skip_existing' = skip_existing
              /\ reply' = "N" => skip_existing' /\ force_overwrite' = force_overwrite
              /\ reply' \in {"y", "Y"} => GoesToWrite
              /\ reply' \in {"n", "N"} => Skipped
       /\ reply \in {"Y", "N"} => queries' = queries
       /\ (reply = "Y" /\ ExistingRow) => GoesToWrite
       /\ (reply = "N" /\ ExistingRow) => Skipped]_vars

\* After the reply 'Y' to the one question of the run, a later row with the
\* same path, which exists by then, was written.
C4_YesToAllThenWritten ==
    /\ pc = "done"
    /\ reply = "Y"
    /\ Len(queries) = 1
    /\ \E j, k \in 1..Len(produced) :
          /\ produced[j] = queries[1]
          /\ produced[k] > produced[j]
          /\ results[k] = results[j]

(***************************************************************************)
(* The Run Orchestrator: results, errors and row filters.                  *)
(***************************************************************************)
\* The 1-based numbers of the rows that appended a path to the results.
ProducedRows == {produced[k] : k \in 1..Len(produced)} \ {0}

\* The results are in the order of their rows, each the path of its row.
InRowOrder ==
    /\ Len(produced) = Len(results)
    /\ \A j, k \in 1..Len(produced) :
          (j < k /\ produced[j] # 0 /\ produced[k] # 0) => produced[j] < produced[k]
    /\ \A k \in 1..Len(produced) :
          produced[k] # 0 => results[k] = Resolve(produced[k] - 1).text

\* The manifest was appended to the results.
ManifestAppended == \E k \in 1..Len(produced) : produced[k] = 0

\* C5, as claimed: the document paths are in the order of their rows, and
\* the path of a manifest is the last element and occurs exactly once.
C5_ManifestPathOnce ==
    /\ InRowOrder
    /\ ManifestAppended =>
          /\ results[Len(results)] = destination_html
          /\ Cardinality({k \in 1..Len(results) : results[k] = destination_html}) = 1

\* C5, amended: the document paths are in the order of their rows, and a
\* manifest is appended once, as the last element; its path occurs a second
\* time only as the path of a row's document.
C5_RowOrderManifestLast ==
    /\ InRowOrder
    /\ ManifestAppended =>
          /\ produced[Len(produced)] = 0
          /\ results[Len(results)] = destination_html
          /\ Cardinality({k \in 1..Len(produced) : produced[k] = 0}) = 1

\* A run returned two documents and the manifest.
C5_TwoDocumentsAndManifest ==
    pc = "done" /\ Len(results) = 3 /\ produced[3] = 0 /\ results[1] # results[2]

\* The step reports that write_ttg could not write the document.
WriteFailureReported ==
    /\ Len(messages') > Len(messages)
    /\ messages'[Len(messages')].text = "Skipping! Cannot write to this path."

\* C6: when writing a row's document fails, the failure is reported, the
\* path of the row is not appended to the results, and the loop goes on
\* with the next row.
C6_FailedWriteNotAppended ==
    [][WriteFailureReported =>
           /\ results' = results
           /\ pc' = "rows"
           /\ index' = index + 1]_vars

\* The table file is missing, unreadable or invalid.
TableError ==
    \/ csv_file.status # "ok"
    \/ \E r \in 1..Len(csv_file.rows) : \E c \in 1..Len(csv_file.rows[r]) :
          \E k \in 1..Len(csv_file.rows[r][c]) : csv_file.rows[r][c][k] \in {"\n", "\r"}

\* The configured document template file is missing.
TemplateMissing == template_ttg.given /\ template_ttg.status = "missing"

Said(text) == \E k \in 1..Len(messages) : messages[k].text = text

\* C7: after a table error or with a missing template file run() has
\* reported a message, and returns an empty result: no row gets into the
\* results and no manifest is written.
C7_LoadErrorEmptyResult ==
    (pc # "new" /\ (TableError \/ TemplateMissing)) =>
        /\ Said("CSV file not found!") \/ Said("CSV file not valid!")
               \/ Said("TTG Template file not found!")
        /\ results = <<>>
        /\ HTML_FILENAME \notin DOMAIN files

\* C8: an empty output pattern is a configuration error, fatal before any
\* row is processed: the exception that ends the run does not leave run()
\* from inside the row loop (lines 798 to 905).
C8_EmptyOutputNotInLoop ==
    (output = <<>> /\ pc = "raised") => exception.line \notin 798..905

\* The cells of the row are all empty strings (or there is no cell).
IsEmptyRow(r) == \A c \in 1..Len(csv_rows[r]) : csv_rows[r][c] = <<>>

\* The texts of the messages that carry the row number r.
RowMessages(r) == {messages[k].text : k \in {j \in 1..Len(messages) : messages[j].row = r}}

\* The rows the loop is through with.
Visited == 1..index

\* C9: a row of empty cells is skipped by the first rule and gives no path,
\* whatever the header index, the row sets and the glob filters are.
C9_EmptyRowSkipped ==
    \A r \in 1..Len(csv_rows) :
        IsEmptyRow(r) =>
            /\ r \notin ProducedRows
            /\ r \in Visited => RowMessages(r) = {"Skipping - Empty row"}

\* An empty row that is also the header row and in the exclude set was
\* visited, with an include set and both glob filters given.
C9_EmptyHeaderRowVisited ==
    /\ pc = "done"
    /\ \E r \in 1..Len(csv_rows) : IsEmptyRow(r) /\ r = row_header /\ r \in row_exclude
    /\ row_include # {} /\ filter_include # <<>> /\ filter_exclude # <<>>

\* C10: row numbers are 1-based and the exclude set is looked at before the
\* include set: a row in the exclude set is skipped even when it is in the
\* include set; a row is skipped when the include set is not empty and does
\* not hold it; the header row is skipped whether included or not.
C10_RowNumberFilters ==
    \A r \in 1..Len(csv_rows) :
        /\ (r = row_header \/ r \in row_exclude \/ (row_include # {} /\ r \notin row_include))
              => r \notin ProducedRows
        /\ (r \in Visited /\ ~IsEmptyRow(r)) =>
              /\ r = row_header => RowMessages(r) = {"Skipping - Header row"}
              /\ (r # row_header /\ r \in row_exclude)
                    => RowMessages(r) = {"Skipping - Row excluded"}
              /\ (r # row_header /\ r \notin row_exclude
                     /\ row_include # {} /\ r \notin row_include)
                    => RowMessages(r) = {"Skipping - Row not included"}

\* A row that is in the exclude set and in the include set was visited,
\* and so was a header row that is in the include set.
C10_ExcludedAndIncludedVisited ==
    /\ pc = "done"
    /\ \E r \in 1..Len(csv_rows) :
          ~IsEmptyRow(r) /\ r # row_header /\ r \in row_exclude /\ r \in row_include
    /\ \E r \in 1..Len(csv_rows) : ~IsEmptyRow(r) /\ r = row_header /\ r \in row_include

(***************************************************************************)
(* The Path Resolver.                                                      *)
(***************************************************************************)
\* The texts between the angle brackets of the output pattern.
TokenNames ==
    {Slice(output, i + 1, IndexFrom(output, ">", i + 1) - 1) :
        i \in {k \in 1..Len(output) : output[k] = "<" /\ IndexFrom(output, ">", k + 1) > 0}}

\* The tokens that name a column, and the indexes of those that number one.
NamedTokens == {t \in TokenNames : t # <<>> /\ \E k \in 1..Len(t) : t[k] \notin Digits}

PositionalTokens == {DecValue(t) : t \in {n \in TokenNames \ NamedTokens : n # <<>>}}

\* Row r was visited and none of the row rules of lines 802 to 822 skipped it.
Eligible(r) == r \in Visited /\ RowRule(r - 1) = "pass"

\* Row r was skipped because its path could not be assembled.
Unresolved(r) ==
    /\ r \notin ProducedRows
    /\ "Skipping - Could not assemble output path." \in RowMessages(r)

\* The configured header row names column j, and the cell of row r in every
\* column of that name is empty.
NamesEmptyCell(name, r) ==
    /\ row_header \in 1..Len(csv_rows)
    /\ \E j \in 1..Len(csv_rows[r]) :
          j <= Len(csv_rows[row_header]) /\ csv_rows[row_header][j] = name
    /\ \A j \in 1..Len(csv_rows[r]) :
          (j <= Len(csv_rows[row_header]) /\ csv_rows[row_header][j] = name)
              => csv_rows[r][j] = <<>>

\* C11: a token that names a header whose cell in the row is empty makes
\* the resolution of the row fail (the row is skipped with 'could not
\* assemble output path', never resolved with an empty string); header
\* Title, Duration and row 'Spot A', '30' resolve <Title>_<Duration>.ttg
\* to Spot_A_30.ttg.
C11_EmptyNamedCellFails ==
    /\ \A r \in 1..Len(csv_rows) : \A name \in NamedTokens :
          (Eligible(r) /\ NamesEmptyCell(name, r)) => Unresolved(r)
    /\ (csv_rows = SpotTable /\ output = SpotOutput /\ row_header = 1 /\ index = 2)
          => /\ ProducedRows = {2}
             /\ results[1] = <<"S", "p", "o", "t", "_", "A", "_", "3", "0", ".", "t", "t", "g">>

\* C12: a positional token whose index is out of range for the row, or
\* whose cell is empty, makes the resolution of the row fail: the row is
\* skipped, and the token is never resolved to a placeholder text.
C12_PositionalMissingFails ==
    \A r \in 1..Len(csv_rows) : \A n \in PositionalTokens :
        (Eligible(r) /\ (n >= Len(csv_rows[r]) \/ csv_rows[r][n + 1] = <<>>))
            => Unresolved(r)

\* C13: the named tokens of the pattern are resolved against the configured
\* header row, the row that names the slots of the document: the path of a
\* row in the results is the pattern formatted with the names of
\* csv_rows[row_header - 1].
C13_NamesFromHeaderRow ==
    \A k \in 1..Len(produced) :
        (produced[k] # 0 /\ row_header \in 1..Len(csv_rows)) =>
            Format(filepath_pattern, Column(csv_rows[produced[k]]),
                   Keyword(csv_rows[row_header], csv_rows[produced[k]]))
                = Formatted(results[k])

(***************************************************************************)
(* The run end to end: counts, dry run, manifest.                          *)
(***************************************************************************)
\* The rows of the table but the header row.
DataRows == (1..Len(csv_rows)) \ {row_header}

\* The generated entries of a manifest: its lines that open a button.
GeneratedEntries(lines) == {k \in 1..Len(lines) : lines[k] = ButtonOpen}

\* The run is over, with html on, no dry run, an HTML template that loads,
\* a document template with a slot, no row or glob filter, one header row
\* and data rows that are not empty and resolve to different paths, none of
\* which was found to exist.
CountCase ==
    /\ pc = "done"
    /\ html /\ ~dry_run /\ template_html.status = "ok"
    /\ DOMAIN template_ttg_keywords # {}
    /\ row_include = {} /\ row_exclude = {}
    /\ filter_include = <<>> /\ filter_exclude = <<>>
    /\ row_header \in 1..Len(csv_rows)
    /\ \A r \in DataRows : ~IsEmptyRow(r) /\ Resolve(r - 1).err = "none"
    /\ \A q, r \in DataRows : q # r => Resolve(q - 1).text # Resolve(r - 1).text
    /\ ~Said("Warning! already exists!")

\* The results are the documents of the data rows and then the manifest,
\* and the manifest holds one generated entry for each document.
CountsAgree ==
    /\ Len(results) = Cardinality(DataRows) + 1
    /\ ProducedRows = DataRows
    /\ results[Len(results)] = destination_html
    /\ destination_html \in DOMAIN files
    /\ Cardinality(GeneratedEntries(files[destination_html])) = Cardinality(DataRows)
    /\ \A k \in 1..(Len(results) - 1) :
          \E j \in GeneratedEntries(files[destination_html]) :
              files[destination_html][j + 1] = html_entry(filename_no_ext(results[k]))[2]

\* C14, as claimed: with html on, no dry run, a loadable HTML template and
\* a document template with a slot, a table of a header row and N data rows
\* that resolve to different paths that do not exist gives N + 1 results,
\* the N documents and then the manifest, and a manifest of N generated
\* entries, one for the base name of each document.
C14_CountLoadable == CountCase => CountsAgree

\* C14, amended: the same, for an HTML template of at least 40 lines (the
\* entries take the place of line 40 of the template).
C14_CountWithInsertLine ==
    (CountCase /\ Len(template_html.lines) >= HtmlInsertLine) => CountsAgree

\* A run over a header row and two data rows wrote the manifest from a
\* template of more than 40 lines.
C14_TwoDocumentsCounted ==
    /\ CountCase /\ Len(template_html.lines) >= HtmlInsertLine
    /\ Cardinality(DataRows) = 2

\* The step is through with the row at index, which passed the row rules,
\* the resolution and the glob filters, and the overwrite decision did not
\* skip it: its file was not found, or neither skip_existing nor a reply of
\* n or N stood against it.
PassesAll ==
    /\ InLoop /\ Proceeds(index) /\ index' = index + 1
    /\ ~(/\ Exists(Resolve(index).text)
         /\ \/ skip_existing
            \/ (queries' # queries /\ reply' \in {"n", "N"}))

\* C15: a dry run changes nothing on the file system (no directory made, no
\* document and no manifest written); the path of every row that passes
\* the filters and the overwrite decision is still appended to the
\* results, and the path of the manifest is not.
C15_DryRunFrame ==
    [][dry_run =>
          /\ files' = files /\ dirs' = dirs
          /\ PassesAll => results' = Append(results, Resolve(index).text)
          /\ results' # results => (InLoop /\ produced' = Append(produced, index + 1))]_vars

\* A dry run with a document template, html on and a loadable HTML template
\* ended with the paths of two rows, one of them in a directory to make.
C15_DryRunListed ==
    /\ pc = "done" /\ dry_run /\ html /\ template_html.status = "ok"
    /\ DOMAIN template_ttg_keywords # {}
    /\ Len(results) = 2 /\ dirname(results[1]) # <<>>
    /\ dirs = {} /\ \A p \in DOMAIN files : files[p] = OldContent

\* The paths of the documents in the results, the manifest left out.
DocumentPaths == {results[k] : k \in {j \in 1..Len(produced) : produced[j] # 0}}

\* d is a directory above path ('' is the directory the run starts in).
IsAbove(d, path) ==
    \/ d = <<>>
    \/ /\ Len(path) > Len(d) + 1
       /\ Slice(path, 1, Len(d)) = d
       /\ path[Len(d) + 1] = "/"
       /\ d[Len(d)] # "/"

\* d is the nearest directory above all the documents.
NearestCommonParent(d) ==
    /\ \A p \in DocumentPaths : IsAbove(d, p)
    /\ \A p \in DocumentPaths : \A n \in 0..Len(p) :
          (\A q \in DocumentPaths : IsAbove(Slice(p, 1, n), q)) => n <= Len(d)

\* The manifest is in directory d.
ManifestIn(d) ==
    destination_html = (IF d = <<>> THEN <<>> ELSE d \o <<"/">>) \o HTML_FILENAME

\* The manifest lists the base name without extension of every document.
ListsDocuments ==
    \A p \in DocumentPaths :
        \E j \in GeneratedEntries(files[destination_html]) :
            files[destination_html][j + 1] = html_entry(filename_no_ext(p))[2]

\* The manifest was written once, after all rows, into the nearest common
\* parent directory of the documents.
WrittenOnceAfterRows ==
    /\ pc = "done" /\ index = Len(csv_rows)
    /\ Cardinality({k \in 1..Len(produced) : produced[k] = 0}) = 1
    /\ produced[Len(produced)] = 0
    /\ \E n \in 0..Len(destination_html) :
          NearestCommonParent(Slice(destination_html, 1, n))
              /\ ManifestIn(Slice(destination_html, 1, n))

\* C16, as claimed: the manifest is written at most once, after all rows,
\* exactly when a document template is configured and the run is not a dry
\* run, into the nearest common parent directory of the documents, and it
\* lists the base name without extension of every document.
C16_ManifestIffTemplate ==
    /\ ManifestAppended => (WrittenOnceAfterRows /\ ListsDocuments)
    /\ pc = "done" => (ManifestAppended <=> (template_ttg.given /\ ~dry_run))

\* C16, amended: the manifest is written at most once, after all rows,
\* exactly when the table has rows, html is on, the HTML template loads
\* and the run is not a dry run, with or without a document template; it
\* is written into the nearest common parent directory of the documents
\* and, from an HTML template of at least 40 lines, lists the base name
\* without extension of every document.
C16_ManifestIffHtml ==
    /\ ManifestAppended =>
          /\ WrittenOnceAfterRows
          /\ Len(template_html.lines) >= HtmlInsertLine => ListsDocuments
    /\ pc = "done" =>
          (ManifestAppended <=>
              (csv_rows # <<>> /\ html /\ template_html.status = "ok" /\ ~dry_run))

\* A run without document template wrote the manifest for two paths that
\* lie in different directories.
C16_ManifestWithoutTemplate ==
    /\ pc = "done" /\ ManifestAppended /\ ~template_ttg.given
    /\ Len(results) = 3 /\ dirname(results[1]) # dirname(results[2])

\* The loop is at a row that no row rule skips, whose path resolves or fails
\* to resolve with a missing index or name, and whose header row exists:
\* what stops the row from here on is a row-local error.
AtRowLocalStep ==
    /\ InLoop
    /\ RowRule(index) = "pass"
    /\ Resolve(index).err \in {"none", "IndexError", "KeyError"}
    /\ ~(DOMAIN template_ttg_keywords # {} /\ HeaderOutOfRange)

\* C17: a row-local error (path not resolved, filter rejection, overwrite
\* skip, document not written) gives messages that carry the 1-based number
\* of the row and does not stop the run: the loop goes on with the next
\* row, so every row is visited once, in the order of the table.
C17_RowErrorsNumberedAndLocal ==
    [][AtRowLocalStep =>
          /\ \A k \in (Len(messages) + 1)..Len(messages') : messages'[k].row = index + 1
          /\ pc' = "rows"
          /\ index' = index + 1]_vars

(***************************************************************************)
(* Two runs in succession.                                                 *)
(***************************************************************************)
\* C18: with force_overwrite and without skip_existing, a second run of the
\* same configuration over the same table and template returns the results
\* of the first run and leaves the files as the first run left them.
C18_SecondRunSame ==
    previous.ran =>
        /\ pc # "raised"
        /\ pc = "done" => (results = previous.results /\ files = previous.files)

\* A second run ended after it found the documents of the first run and
\* wrote two documents and the manifest again.
C18_SecondRunOverwrote ==
    /\ previous.ran /\ pc = "done"
    /\ Len(results) = 3 /\ ManifestAppended
    /\ DOMAIN template_ttg_keywords # {}
    /\ Said("Warning! already exists!")

(***************************************************************************)
(* The Keyword Scanner and the Template Writer.                            *)
(***************************************************************************)
\* The 1-based positions of the encoded lines of the loaded template.
EncodedLines ==
    {i \in 1..Len(template_ttg_rows) :
        /\ startswith(template_ttg_rows[i], <<"T", "e", "x", "t", " ", "6", "0">>)
        /\ endswith(template_ttg_rows[i], <<"6", "2">>)}

\* The keyword of the encoded line i: the characters of its codes between
\* the 60 and the 62.
Decoded(i) == convert_from_ttg_text(template_ttg_rows[i])

\* C19, as claimed: the keyword map is keyed by the length-header line:
\* for an encoded line at position i it holds i - 1 -> decoded keyword (a
\* slot at lines 5 and 6 gives {5: Name}); a template without encoded line,
\* or an empty one, gives the empty map.
C19_KeyedByLengthLine ==
    /\ DOMAIN template_ttg_keywords = {i - 1 : i \in EncodedLines}
    /\ \A i \in EncodedLines : template_ttg_keywords[i - 1] = Decoded(i)
    /\ template_ttg_rows = NameTemplate
          => template_ttg_keywords = (5 :> <<"N", "a", "m", "e">>)

\* C19, amended: the keyword map is keyed by the encoded line itself: for
\* an encoded line at position i it holds i -> decoded keyword (a slot at
\* lines 5 and 6 gives {6: Name}); a template without encoded line, or an
\* empty one, gives the empty map.
C19_KeyedByEncodedLine ==
    /\ DOMAIN template_ttg_keywords = EncodedLines
    /\ \A i \in EncodedLines : template_ttg_keywords[i] = Decoded(i)
    /\ template_ttg_rows = NameTemplate
          => template_ttg_keywords = (6 :> <<"N", "a", "m", "e">>)

\* The template with the slot at lines 5 and 6 was scanned.
C19_NameScanned == pc = "rows" /\ template_ttg_rows = NameTemplate

\* The pair of lines written for the slot of the encoded line i.
SlotPair(i, replacements) ==
    LET value == IF Decoded(i) \in DOMAIN replacements
                 THEN replacements[Decoded(i)] ELSE <<>>
    IN  << <<"T", "e", "x", "t", "L", "e", "n", "g", "t", "h", " ">> \o str(Len(value)),
           <<"T", "e", "x", "t", " ">> \o convert_to_ttg_text(value) >>

\* The document looked for, from line i of the template on: one pair for
\* every encoded line from line first on, nothing for a line that is only
\* the length header of the next, nothing for an encoded line before line
\* first, every other line as it is.
RECURSIVE Document(_, _, _)
Document(i, first, replacements) ==
    IF i > Len(template_ttg_rows) THEN <<>>
    ELSE (IF i \in EncodedLines
          THEN (IF i >= first THEN SlotPair(i, replacements) ELSE <<>>)
          ELSE IF i + 1 \in EncodedLines THEN <<>>
          ELSE <<template_ttg_rows[i]>>)
         \o Document(i + 1, first, replacements)

\* The step writes the document of the row at index.
WritesDocument == InLoop /\ files' # files

\* C20, as claimed: the document written is the template with the two
\* lines of every slot replaced by one new TextLength and Text pair and
\* every other line as it is, in order, for every position of a slot, an
\* encoded line at line 1 and two adjacent encoded lines included.
C20_EverySlotReplaced ==
    [][WritesDocument =>
          files'[Resolve(index).text] = Document(1, 1, ttg_replacements(index))]_vars

\* C20, amended: the same for every slot whose encoded line is at line 2 or
\* later, two adjacent encoded lines included; an encoded line at line 1
\* is left out of the document and no pair is written for it.
C20_SlotsFromLineTwoReplaced ==
    [][WritesDocument =>
          files'[Resolve(index).text] = Document(1, 2, ttg_replacements(index))]_vars

\* A document was written from the template with two adjacent encoded
\* lines: two pairs and the last line.
C20_AdjacentWritten ==
    /\ template_ttg_rows = AdjacentTemplate
    /\ \E p \in DOMAIN files :
          /\ Len(files[p]) = 5
          /\ files[p][2] = <<"T", "e", "x", "t", " ", "1", "2", "0">>
          /\ files[p][4] = <<"T", "e", "x", "t", " ", "1", "2", "1">>
          /\ files[p][5] = <<"E", "n", "d">>

(***************************************************************************)
(* The value of a slot.                                                    *)
(***************************************************************************)
\* The columns of the row at index whose text in the header row is the
\* keyword of the encoded line i.
SlotColumns(i) ==
    {j \in 1..Len(csv_rows[row_header]) :
        j <= Len(csv_rows[index + 1]) /\ csv_rows[row_header][j] = Decoded(i)}

\* The code points of the characters of value, joined by one space.
RECURSIVE CodePoints(_)
CodePoints(value) ==
    IF value = <<>> THEN <<>>
    ELSE IF Len(value) = 1 THEN str(ord(value[1]))
    ELSE str(ord(value[1])) \o <<" ">> \o CodePoints(Tail(value))

\* The document holds the pair of lines of value: the length header with
\* the number of characters, then the Text line with the code points.
HasPair(document, value) ==
    \E k \in 1..(Len(document) - 1) :
        /\ document[k] = <<"T", "e", "x", "t", "L", "e", "n", "g", "t", "h", " ">>
                             \o str(Len(value))
        /\ document[k + 1] = <<"T", "e", "x", "t", " ">> \o CodePoints(value)

AfterRows == pc = "rows" /\ index = Len(csv_rows)

\* The manifest is the template with the line at the insertion index
\* replaced by the two lines of one entry for each name, in the order of
\* the names, and every other line of the template as it is, in order.
IsManifestOf(document, template, names) ==
    /\ Len(document) = IF Len(template) >= HtmlInsertLine
                        THEN Len(template) - 1 + 2 * Len(names) ELSE Len(template)
    /\ \A k \in 1..Len(template) :
          /\ k < HtmlInsertLine => document[k] = template[k]
          /\ k > HtmlInsertLine => document[k - 1 + 2 * Len(names)] = template[k]
    /\ Len(template) >= HtmlInsertLine =>
          \A j \in 1..Len(names) :
              /\ document[HtmlInsertLine + 2 * (j - 1)] = ButtonOpen
              /\ document[HtmlInsertLine + 2 * (j - 1) + 1] =
                     ButtonPayload \o names[j] \o ButtonLabel \o names[j] \o ButtonClose

\* C25: the manifest written has every line of the HTML template as it is
\* and in order, except the line at the insertion index 40, in whose place
\* stands one generated entry for each name, in the order of the names,
\* with the name as label and as copy payload; when the HTML template
\* failed to load, nothing is written and the path of the manifest is not
\* appended to the results.
C25_ManifestFromTemplate ==
    [][AfterRows =>
          /\ files' # files =>
                IsManifestOf(files'[destination_html'], template_html.lines,
                    [k \in 1..Len(results) |-> filename_no_ext(results[k])])
          /\ template_html.status # "ok" => (files' = files /\ results' = results)]_vars

\* The manifest of two documents was written from a template of 41 lines:
\* 39 lines, two entries of two lines, and the last line.
C25_TwoEntriesWritten ==
    /\ pc = "done" /\ Len(results) = 3
    /\ results[3] = destination_html
    /\ destination_html \in DOMAIN files
    /\ Len(files[destination_html]) = HtmlInsertLine + 4
    /\ files[destination_html][HtmlInsertLine + 4] = <<"h">> \o str(HtmlInsertLine + 1)

(***************************************************************************)
(* The overwrite flags over a run.                                         *)
(***************************************************************************)
\* C26: during a run force_overwrite and skip_existing never go from true
\* to false, one reply changes at most one of them, and the two are never
\* both true unless they were both true before: a run that starts with
\* not both flags true has at most one of them true in every state.
C26_FlagsMonotone ==
    [][/\ force_overwrite => force_overwrite'
       /\ skip_existing => skip_existing'
       /\ ~(force_overwrite' # force_overwrite /\ skip_existing' # skip_existing)
       /\ (force_overwrite' /\ skip_existing') => (force_overwrite /\ skip_existing)]_vars

\* A run that started without flags was answered N at a query and ended
\* with skip_existing alone.
C26_NoToAllKept ==
    /\ pc = "done" /\ reply = "N"
    /\ queries # <<>>
    /\ skip_existing /\ ~force_overwrite

(***************************************************************************)
(* The run the window starts.                                              *)
(***************************************************************************)
\* C27: a run started by make_slates has force_overwrite set and
\* skip_existing not set, so whatever the table and the files it never
\* calls overwrite_query and never skips a row because its file exists: a
\* row whose path exists goes on to be written.
C27_WindowRunOverwrites ==
    [][previous.ran' =>
          /\ force_overwrite' /\ ~skip_existing'
          /\ queries' = <<>>
          /\ (previous.ran /\ ExistingRow) => (~Skipped /\ GoesToWrite)]_vars

\* A run started by make_slates found the one document of the run before,
\* wrote it again without a query and ended.
C27_WindowRunFoundDocument ==
    /\ previous.ran /\ pc = "done"
    /\ Len(results) = 2 /\ produced[1] # 0
    /\ Said("Warning! already exists!")
    /\ queries = <<>>

(***************************************************************************)
(* The round trip of the Token Codec.                                      *)
(***************************************************************************)
\* C22, as claimed: decode(encode(s)) = s for every string s of printable
\* ASCII characters, encode being convert_to_ttg_text and decode
\* convert_from_ttg_text.
C22_RoundTrip ==
    called = <<"convert_to_ttg_text", "convert_from_ttg_text">> => returned = string

\* The string is s between angle brackets.
Bracketed == Len(string) >= 2 /\ string[1] = "<" /\ string[Len(string)] = ">"

\* C22, amended: decode('Text ' + encode('<' + s + '>')) = s for every
\* string s of printable ASCII characters: the decoder takes the Text line
\* of a keyword and returns the keyword without the word Text and without
\* the angle brackets.
C22_RoundTripOfTextLine ==
    (called = <<"convert_to_ttg_text", "Text", "convert_from_ttg_text">> /\ Bracketed)
        => returned = Slice(string, 2, Len(string) - 1)

\* The Text line of <a > was decoded to the keyword 'a '.
C22_KeywordDecoded ==
    /\ called = <<"convert_to_ttg_text", "Text", "convert_from_ttg_text">>
    /\ string = <<"<", "a", " ", ">">>
    /\ returned = <<"a", " ">>

(***************************************************************************)
(* The row notation.                                                       *)
(***************************************************************************)
\* The elements of the row_include argument and the numbers of an element.
Elements == SplitOn(string, ",")

Numbers(element) == SplitOn(element, "-")

\* The notation is valid: every element is one integer, or two integers
\* with a hyphen between them.
ValidNotation ==
    \A k \in 1..Len(Elements) :
        /\ Len(Numbers(Elements[k])) \in {1, 2}
        /\ \A j \in 1..Len(Numbers(Elements[k])) : IsInt(Numbers(Elements[k])[j])

\* Some element is not numeric: it has a character that is neither a digit
\* nor the hyphen.
NonNumericElement ==
    \E k \in 1..Len(Elements) :
        \E j \in 1..Len(Elements[k]) : Elements[k][j] \notin Digits \cup {"-"}

\* The integer n is listed: it is the integer of an element, or it lies
\* between the two integers of an element, whichever of them is the lower.
Listed(n) ==
    \E k \in 1..Len(Elements) :
        LET a == DecValue(Numbers(Elements[k])[1])
            b == DecValue(Numbers(Elements[k])[Len(Numbers(Elements[k]))])
        IN  (a <= n /\ n <= b) \/ (b <= n /\ n <= a)

\* The integers of the element k: its integer, or all from the lower to
\* the higher of its two integers.
Range(k) ==
    LET a == DecValue(Numbers(Elements[k])[1])
        b == DecValue(Numbers(Elements[k])[Len(Numbers(Elements[k]))])
    IN  IF a <= b THEN a..b ELSE b..a

\* C23: for every valid notation (single integers and lo-hi ranges between
\* commas) expand_row_notation returns exactly the integers listed and the
\* integers of each inclusive range, each once, whichever way round a
\* range is written; an element that is not numeric raises an error out
\* of the constructor, before any row.
C23_ExpandsListedRows ==
    (called # <<>> /\ string # <<>>) =>
        /\ ValidNotation =>
              /\ exception.line # 436
              /\ \A n \in row_include : Listed(n)
              /\ \A k \in 1..Len(Elements) : Range(k) \subseteq row_include
        /\ NonNumericElement =>
              /\ pc = "raised"
              /\ exception = [type |-> "ValueError", line |-> 436]
              /\ index = 0 /\ messages = <<>>

\* The notation 3-1,1 was expanded to the rows 1, 2 and 3.
C23_ReversedRangeExpanded ==
    /\ called = <<"row_include">>
    /\ string = <<"3", "-", "1", ",", "1">>
    /\ row_include = {1, 2, 3}

(***************************************************************************)
(* The sanitizer.                                                          *)
(***************************************************************************)
\* The length of the match of \d+:\d+ that starts at position i of s, 0
\* when there is none.
DigitsColonDigits(s, i) ==
    LET a == RunLen(s, i, Digits)
        b == IF i + a + 1 <= Len(s) THEN RunLen(s, i + a + 1, Digits) ELSE 0
    IN  IF a > 0 /\ i + a <= Len(s) /\ s[i + a] = ":" /\ b > 0 THEN a + 1 + b ELSE 0

\* s with the colon of every match of \d+:\d+ made an x, leftmost matches
\* first.
RECURSIVE ColonsToX(_, _)
ColonsToX(s, i) ==
    IF i > Len(s) THEN <<>>
    ELSE IF DigitsColonDigits(s, i) = 0 THEN <<s[i]>> \o ColonsToX(s, i + 1)
    ELSE Slice(s, i, i + RunLen(s, i, Digits) - 1) \o <<"x">>
         \o Slice(s, i + RunLen(s, i, Digits) + 1, i + DigitsColonDigits(s, i) - 1)
         \o ColonsToX(s, i + DigitsColonDigits(s, i))

\* The text has no non-word character, no underscore at either end and no
\* two underscores in a row.
Tidy(text) ==
    /\ \A k \in 1..Len(text) : IsWord(text[k])
    /\ text # <<>> => (text[1] # "_" /\ text[Len(text)] # "_")
    /\ \A k \in 1..(Len(text) - 1) : ~(text[k] = "_" /\ text[k + 1] = "_")

\* C24: tidy_text rewrites every occurrence of digits:digits (the pattern
\* \d+:\d+, any of the digits 0-9 on both sides, 10:1 and 1:10 alike) to
\* digits x digits, and what it returns has no non-word character or
\* underscore at its start or end, no non-word character anywhere and no
\* two underscores in a row.
C24_TidyRewritesRatios ==
    called = <<"tidy_text">> =>
        /\ returned = Dedupe(Sanitize(ColonsToX(Chop(string), 1)))
        /\ Tidy(returned)

(***************************************************************************)
(* The filter buttons of the window.                                       *)
(***************************************************************************)
\* C28: whatever the filter buttons pressed so far, the include and the
\* exclude line edits are never both enabled; pressing a filter button
\* whose line edit is enabled disables that line edit, and pressing one
\* whose line edit is not enabled enables it and disables the other.
C28_FilterButtonsToggle ==
    [][/\ ~(filter_include_enabled' /\ filter_exclude_enabled')
       /\ clicked' = "filter_include_btn" =>
              IF filter_include_enabled THEN ~filter_include_enabled'
              ELSE filter_include_enabled' /\ ~filter_exclude_enabled'
       /\ clicked' = "filter_exclude_btn" =>
              IF filter_exclude_enabled THEN ~filter_exclude_enabled'
              ELSE filter_exclude_enabled' /\ ~filter_include_enabled']_vars

====
